---------------------------- MODULE Spec2Model ----------------------------
(***************************************************************************)
(* A model of the p64lang interpreter: the value and operator model, the   *)
(* scope chain, the tree-walking evaluator (as a small-step machine whose  *)
(* stack holds the activation records of the recursive eval/exec calls),   *)
(* the nom parser of parser.rs and the entry point interpret of lib.rs.    *)
(*                                                                         *)
(* Representation.  Identifiers and string contents are sequences of       *)
(* one-character strings (<<"a","b">> is "ab").  A Real is an exact        *)
(* rational n/d in lowest terms with d > 0; d = 0 encodes the IEEE-754     *)
(* specials: n = 1 is +inf, n = -1 is -inf, n = 0 is NaN.  Every record    *)
(* field name carries values of one type only.                             *)
(***************************************************************************)
EXTENDS Integers, Sequences, FiniteSets, TLC

(***************************************************************************)
(* ast.rs / interpreter.rs: Value                                          *)
(***************************************************************************)
VNone == [t |-> "None"]
VBool(x) == [t |-> "Bool", b |-> x]
VInt(x) == [t |-> "Int", i |-> x]
VStr(x) == [t |-> "Str", s |-> x]
VList(x) == [t |-> "List", l |-> x]
VDict(x) == [t |-> "Dict", dm |-> x]
\* The outcome of an operation on which the Rust code panics (no Value).
Panic == [t |-> "Panic"]

Abs(x) == IF x < 0 THEN -x ELSE x
Sign(x) == IF x < 0 THEN -1 ELSE IF x > 0 THEN 1 ELSE 0

RECURSIVE Gcd(_, _)
Gcd(x, y) == IF y = 0 THEN x ELSE Gcd(y, x % y)

\* An f64 from a numerator and a denominator: lowest terms, positive
\* denominator; x/0 is +inf, -inf or NaN by the sign of x.
VReal(num, den) ==
    IF den = 0 THEN [t |-> "Real", n |-> Sign(num), d |-> 0]
    ELSE LET g == Gcd(Abs(num), Abs(den))
             sg == IF den < 0 THEN -1 ELSE 1
         IN [t |-> "Real", n |-> (sg * num) \div g, d |-> Abs(den) \div g]

\* `x as f64`
AsF64(x) == VReal(x, 1)

IsNaN(x) == x.d = 0 /\ x.n = 0
IsInf(x) == x.d = 0 /\ x.n # 0

(***************************************************************************)
(* Opcode::calc_i, calc_f, eval, eval_unary, logical (interpreter.rs)      *)
(***************************************************************************)
\* Rust's isize `/` and `%` truncate toward zero and panic on a zero divisor.
TruncDiv(l, r) == Sign(l) * Sign(r) * (Abs(l) \div Abs(r))
TruncRem(l, r) == Sign(l) * (Abs(l) % Abs(r))

calc_i(opc, l, r) ==
    CASE opc = "Add" -> VInt(l + r)
      [] opc = "Div" -> IF r = 0 THEN Panic ELSE VInt(TruncDiv(l, r))
      [] opc = "Mod" -> IF r = 0 THEN Panic ELSE VInt(TruncRem(l, r))
      [] opc = "Mul" -> VInt(l * r)
      [] opc = "Sub" -> VInt(l - r)
      [] OTHER -> VInt(0)

NaN == VReal(0, 0)
FNeg(x) == [t |-> "Real", n |-> -x.n, d |-> x.d]

FAdd(l, r) ==
    IF IsNaN(l) \/ IsNaN(r) THEN NaN
    ELSE IF IsInf(l) /\ IsInf(r) THEN (IF l.n = r.n THEN l ELSE NaN)
    ELSE IF IsInf(l) THEN l
    ELSE IF IsInf(r) THEN r
    ELSE VReal(l.n * r.d + r.n * l.d, l.d * r.d)

FMul(l, r) ==
    IF IsNaN(l) \/ IsNaN(r) THEN NaN
    ELSE IF IsInf(l) \/ IsInf(r) THEN VReal(Sign(l.n) * Sign(r.n), 0)
    ELSE VReal(l.n * r.n, l.d * r.d)

FDiv(l, r) ==
    IF IsNaN(l) \/ IsNaN(r) THEN NaN
    ELSE IF IsInf(l) /\ IsInf(r) THEN NaN
    ELSE IF IsInf(l) THEN VReal(l.n * (IF r.n < 0 THEN -1 ELSE 1), 0)
    ELSE IF IsInf(r) THEN VReal(0, 1)
    ELSE VReal(l.n * r.d, l.d * r.n)

calc_f(opc, l, r) ==
    CASE opc = "Add" -> FAdd(l, r)
      [] opc = "Div" -> FDiv(l, r)
      [] opc = "Mul" -> FMul(l, r)
      [] opc = "Sub" -> FAdd(l, FNeg(r))
      [] OTHER -> VReal(0, 1)

\* IEEE-754 comparisons: every ordered comparison with a NaN is false.
FEq(l, r) == ~IsNaN(l) /\ ~IsNaN(r) /\ l.n = r.n /\ l.d = r.d
FLt(l, r) ==
    /\ ~IsNaN(l) /\ ~IsNaN(r)
    /\ IF IsInf(l) THEN l.n = -1 /\ ~(IsInf(r) /\ r.n = -1)
       ELSE IF IsInf(r) THEN r.n = 1
       ELSE l.n * r.d < r.n * l.d

\* &str comparison: lexicographic by code point, over the characters in use.
CharCode(c) ==
    CASE c = " " -> 32 [] c = "!" -> 33 [] c = "\"" -> 34 [] c = "%" -> 37
      [] c = "&" -> 38 [] c = "(" -> 40 [] c = ")" -> 41 [] c = "*" -> 42
      [] c = "+" -> 43 [] c = "," -> 44 [] c = "-" -> 45 [] c = "." -> 46
      [] c = "/" -> 47 [] c = "0" -> 48 [] c = "1" -> 49 [] c = "2" -> 50
      [] c = "3" -> 51 [] c = "4" -> 52 [] c = "5" -> 53 [] c = "6" -> 54
      [] c = "7" -> 55 [] c = "8" -> 56 [] c = "9" -> 57 [] c = ":" -> 58
      [] c = ";" -> 59 [] c = "<" -> 60 [] c = "=" -> 61 [] c = ">" -> 62
      [] c = "[" -> 91 [] c = "]" -> 93 [] c = "^" -> 94 [] c = "_" -> 95
      [] c = "a" -> 97 [] c = "b" -> 98 [] c = "c" -> 99 [] c = "d" -> 100
      [] c = "e" -> 101 [] c = "f" -> 102 [] c = "g" -> 103 [] c = "h" -> 104
      [] c = "i" -> 105 [] c = "k" -> 107 [] c = "l" -> 108 [] c = "n" -> 110
      [] c = "o" -> 111 [] c = "p" -> 112 [] c = "r" -> 114 [] c = "s" -> 115
      [] c = "t" -> 116 [] c = "u" -> 117 [] c = "z" -> 122 [] c = "{" -> 123
      [] c = "|" -> 124 [] c = "}" -> 125
      [] OTHER -> 0

RECURSIVE StrLt(_, _)
StrLt(l, r) ==
    IF r = << >> THEN FALSE
    ELSE IF l = << >> THEN TRUE
    ELSE IF CharCode(Head(l)) # CharCode(Head(r))
         THEN CharCode(Head(l)) < CharCode(Head(r))
         ELSE StrLt(Tail(l), Tail(r))

\* The six relational arms of Opcode::logical share one operand match; Rel
\* gives the arm's comparison from "equal" and "less than".
Rel(opc, eq, lt, unordered) ==
    CASE opc = "Equal" -> eq
      [] opc = "NotEqual" -> ~eq
      [] opc = "LessThan" -> lt
      [] opc = "GreaterThan" -> ~unordered /\ ~lt /\ ~eq
      [] opc = "LessThanOrEqual" -> lt \/ eq
      [] opc = "GreaterThanOrEqual" -> ~unordered /\ ~lt

RelF(opc, l, r) == Rel(opc, FEq(l, r), FLt(l, r), IsNaN(l) \/ IsNaN(r))

RelationalOps == {"Equal", "NotEqual", "LessThan", "GreaterThan",
                  "LessThanOrEqual", "GreaterThanOrEqual"}
LogicalOps == {"LogicalAnd", "LogicalOr", "LogicalXor"}

\* Opcode::logical with Bool(false) where the operands are outside the
\* operator's domain
logical_BoolFalse(opc, l, r) ==
    IF opc \in RelationalOps THEN
        CASE l.t = "Int" /\ r.t = "Int" ->
                 VBool(Rel(opc, l.i = r.i, l.i < r.i, FALSE))
          [] l.t = "Int" /\ r.t = "Real" -> VBool(RelF(opc, AsF64(l.i), r))
          [] l.t = "Real" /\ r.t = "Int" -> VBool(RelF(opc, l, AsF64(r.i)))
          [] l.t = "Real" /\ r.t = "Real" -> VBool(RelF(opc, l, r))
          [] l.t = "Str" /\ r.t = "Str" ->
                 VBool(Rel(opc, l.s = r.s, StrLt(l.s, r.s), FALSE))
          [] OTHER -> VBool(FALSE)
    ELSE IF opc = "LogicalAnd" THEN
        (IF l.t = "Bool" /\ r.t = "Bool" THEN VBool(l.b /\ r.b) ELSE VNone)
    ELSE IF opc = "LogicalOr" THEN
        (IF l.t = "Bool" /\ r.t = "Bool" THEN VBool(l.b \/ r.b) ELSE VNone)
    ELSE IF opc = "LogicalXor" THEN
        (IF l.t = "Bool" /\ r.t = "Bool"
         THEN VBool((l.b \/ r.b) /\ ~(l.b /\ r.b)) ELSE VNone)
    ELSE VNone

logical(opc, l, r) ==
    IF opc \in RelationalOps THEN
        CASE l.t = "Int" /\ r.t = "Int" ->
                 VBool(Rel(opc, l.i = r.i, l.i < r.i, FALSE))
          [] l.t = "Int" /\ r.t = "Real" -> VBool(RelF(opc, AsF64(l.i), r))
          [] l.t = "Real" /\ r.t = "Int" -> VBool(RelF(opc, l, AsF64(r.i)))
          [] l.t = "Real" /\ r.t = "Real" -> VBool(RelF(opc, l, r))
          [] l.t = "Str" /\ r.t = "Str" ->
                 VBool(Rel(opc, l.s = r.s, StrLt(l.s, r.s), FALSE))
          [] OTHER -> VNone
    ELSE IF opc = "LogicalAnd" THEN
        (IF l.t = "Bool" /\ r.t = "Bool" THEN VBool(l.b /\ r.b) ELSE VNone)
    ELSE IF opc = "LogicalOr" THEN
        (IF l.t = "Bool" /\ r.t = "Bool" THEN VBool(l.b \/ r.b) ELSE VNone)
    ELSE IF opc = "LogicalXor" THEN
        (IF l.t = "Bool" /\ r.t = "Bool"
         THEN VBool((l.b \/ r.b) /\ ~(l.b /\ r.b)) ELSE VNone)
    ELSE VNone

\* Opcode::eval with the (Int, Int) arm of Div computing in integers, as the
\* arms of Add, Mul and Sub do
Opcode_eval_IntDiv(opc, l, r) ==
    IF opc \in {"Add", "Mul", "Sub", "Div"} THEN
        CASE l.t = "Int" /\ r.t = "Int" -> calc_i(opc, l.i, r.i)
          [] l.t = "Int" /\ r.t = "Real" -> calc_f(opc, AsF64(l.i), r)
          [] l.t = "Real" /\ r.t = "Int" -> calc_f(opc, l, AsF64(r.i))
          [] l.t = "Real" /\ r.t = "Real" -> calc_f(opc, l, r)
          [] OTHER -> VNone
    ELSE IF opc = "Mod" THEN
        (IF l.t = "Int" /\ r.t = "Int" THEN calc_i(opc, l.i, r.i) ELSE VNone)
    ELSE IF opc \in RelationalOps \cup LogicalOps THEN logical(opc, l, r)
    ELSE VNone

Opcode_eval(opc, l, r) ==
    IF opc \in {"Add", "Mul", "Sub"} THEN
        CASE l.t = "Int" /\ r.t = "Int" -> calc_i(opc, l.i, r.i)
          [] l.t = "Int" /\ r.t = "Real" -> calc_f(opc, AsF64(l.i), r)
          [] l.t = "Real" /\ r.t = "Int" -> calc_f(opc, l, AsF64(r.i))
          [] l.t = "Real" /\ r.t = "Real" -> calc_f(opc, l, r)
          [] OTHER -> VNone
    ELSE IF opc = "Div" THEN
        CASE l.t = "Int" /\ r.t = "Int" -> calc_f(opc, AsF64(l.i), AsF64(r.i))
          [] l.t = "Int" /\ r.t = "Real" -> calc_f(opc, AsF64(l.i), r)
          [] l.t = "Real" /\ r.t = "Int" -> calc_f(opc, l, AsF64(r.i))
          [] l.t = "Real" /\ r.t = "Real" -> calc_f(opc, l, r)
          [] OTHER -> VNone
    ELSE IF opc = "Mod" THEN
        (IF l.t = "Int" /\ r.t = "Int" THEN calc_i(opc, l.i, r.i) ELSE VNone)
    ELSE IF opc \in RelationalOps \cup LogicalOps THEN logical(opc, l, r)
    ELSE VNone

\* Opcode::eval_unary with None for an operand that is neither Bool nor None
eval_unary_NoneForOther(opc, x) ==
    IF opc = "Not" THEN
        CASE x.t = "Bool" -> VBool(~x.b)
          [] x.t = "None" -> VBool(TRUE)
          [] OTHER -> VNone
    ELSE VNone

eval_unary(opc, x) ==
    IF opc = "Not" THEN
        CASE x.t = "Bool" -> VBool(~x.b)
          [] x.t = "None" -> VBool(TRUE)
          [] OTHER -> VBool(FALSE)
    ELSE VNone


(***************************************************************************)
(* interpreter.rs: Scope and ScopeChain.  A Scope is a record of three     *)
(* maps (functions with a finite domain of identifiers); a ScopeChain is   *)
(* the sequence `scopes`, the last element being the innermost Scope.      *)
(***************************************************************************)
EmptyMap == << >>
MapInsert(m, key, val) ==
    [x \in (DOMAIN m) \cup {key} |-> IF x = key THEN val ELSE m[x]]

Some(x) == [o |-> "Some", v |-> x]
SomeFn(x) == [o |-> "Some", fn |-> x]
SomeNative(x) == [o |-> "Some", nf |-> x]
None == [o |-> "None"]

Scope_new == [funcs |-> EmptyMap, native_funcs |-> EmptyMap, vars |-> EmptyMap]

Min(x, y) == IF x < y THEN x ELSE y

\* The zip with every parameter paired: a parameter past the last value is
\* paired with None
Zip_Padded(arg_ids, vals) ==
    [j \in 1..Len(arg_ids) |->
        <<arg_ids[j], IF j <= Len(vals) THEN vals[j] ELSE VNone>>]

\* self.args.iter().zip(args): pairs up to the shorter of the two.
Zip(arg_ids, vals) ==
    [j \in 1..Min(Len(arg_ids), Len(vals)) |-> <<arg_ids[j], vals[j]>>]

RECURSIVE InsertArgs(_, _)
InsertArgs(vars, pairs) ==
    IF pairs = << >> THEN vars
    ELSE InsertArgs(MapInsert(vars, Head(pairs)[1], Head(pairs)[2]), Tail(pairs))

Scope_from_args(pairs) ==
    [Scope_new EXCEPT !.vars = InsertArgs(EmptyMap, pairs)]

ScopeChain_from_scope(scope) == <<scope>>

ScopeChain_push(scopes, scope) == Append(scopes, scope)

ScopeChain_pop(scopes) ==
    IF scopes = << >> THEN scopes ELSE SubSeq(scopes, 1, Len(scopes) - 1)

insert_func(scopes, key, val) ==
    IF scopes = << >> THEN scopes
    ELSE [scopes EXCEPT ![Len(scopes)].funcs = MapInsert(@, key, val)]

\* insert_var updating the innermost binding of the name where there is
\* one, as an assignment would
insert_var_Assign(scopes, key, val) ==
    IF scopes = << >> THEN scopes
    ELSE LET binders == {j \in 1..Len(scopes) : key \in DOMAIN scopes[j].vars}
             at == IF binders = {} THEN Len(scopes)
                   ELSE CHOOSE j \in binders : \A h \in binders : h <= j
         IN [scopes EXCEPT ![at].vars = MapInsert(@, key, val)]

\* insert_var writing into the first scope of the chain, not the last
insert_var_FirstScope(scopes, key, val) ==
    IF scopes = << >> THEN scopes
    ELSE [scopes EXCEPT ![1].vars = MapInsert(@, key, val)]

insert_var(scopes, key, val) ==
    IF scopes = << >> THEN scopes
    ELSE [scopes EXCEPT ![Len(scopes)].vars = MapInsert(@, key, val)]

\* The walks `for scope in self.scopes.iter().rev()`: j runs from the last
\* scope down to the first.
RECURSIVE InsertDictItemFrom(_, _, _, _, _)
InsertDictItemFrom(scopes, j, key, idx, val) ==
    IF j = 0 THEN scopes
    ELSE IF key \in DOMAIN scopes[j].vars /\ scopes[j].vars[key].t = "Dict"
         THEN [scopes EXCEPT ![j].vars[key] = VDict(MapInsert(@.dm, idx, val))]
         ELSE InsertDictItemFrom(scopes, j - 1, key, idx, val)

\* insert_dict_item keeping the value of a key the dict already has (an
\* insert that only fills vacant entries)
insert_dict_item_KeepExisting(scopes, key, idx, val) ==
    IF \E j \in 1..Len(scopes) :
           /\ key \in DOMAIN scopes[j].vars
           /\ scopes[j].vars[key].t = "Dict"
           /\ idx \in DOMAIN scopes[j].vars[key].dm
    THEN scopes
    ELSE InsertDictItemFrom(scopes, Len(scopes), key, idx, val)

insert_dict_item(scopes, key, idx, val) ==
    InsertDictItemFrom(scopes, Len(scopes), key, idx, val)

\* insert_list_item pushing the value onto a list that is too short, with
\* no None padding
ListSet_Push(lst, idx, val) ==
    IF Len(lst) <= idx THEN Append(lst, val)
    ELSE [lst EXCEPT ![idx + 1] = val]

\* lst.resize(idx + 1, Value::None); lst[idx] = val, for 0 <= idx.
ListSet(lst, idx, val) ==
    [j \in 1..(IF Len(lst) <= idx THEN idx + 1 ELSE Len(lst)) |->
        IF j = idx + 1 THEN val ELSE IF j <= Len(lst) THEN lst[j] ELSE VNone]

\* The caller passes `x as usize`.  For x < 0 that is at least 2^63: the
\* resize panics (capacity overflow; for x = -1, idx + 1 overflows, and a
\* build that wraps it to 0 panics on lst[idx]).  The result is the chain,
\* or p = TRUE when the call panics.
RECURSIVE InsertListItemFrom(_, _, _, _, _)
InsertListItemFrom(scopes, j, key, x, val) ==
    IF j = 0 THEN [p |-> FALSE, sc |-> scopes]
    ELSE IF key \in DOMAIN scopes[j].vars /\ scopes[j].vars[key].t = "List"
         THEN IF x < 0 THEN [p |-> TRUE, sc |-> scopes]
              ELSE [p |-> FALSE,
                    sc |-> [scopes EXCEPT ![j].vars[key] =
                                              VList(ListSet(@.l, x, val))]]
         ELSE InsertListItemFrom(scopes, j - 1, key, x, val)

\* insert_list_item on lists held by reference: the update shows in every
\* binding that was made from the list it changes
insert_list_item_Shared(scopes, key, x, val) ==
    LET res == InsertListItemFrom(scopes, Len(scopes), key, x, val)
    IN IF res.p \/ res.sc = scopes THEN res
       ELSE LET j == CHOOSE k \in 1..Len(scopes) : res.sc[k] # scopes[k]
                old == scopes[j].vars[key]
                new == res.sc[j].vars[key]
            IN [p |-> FALSE,
                sc |-> [k \in 1..Len(scopes) |->
                          [scopes[k] EXCEPT !.vars =
                              [nm \in DOMAIN scopes[k].vars |->
                                  IF scopes[k].vars[nm] = old THEN new
                                  ELSE scopes[k].vars[nm]]]]]

insert_list_item(scopes, key, x, val) ==
    InsertListItemFrom(scopes, Len(scopes), key, x, val)

RECURSIVE ResolveFuncFrom(_, _, _)
ResolveFuncFrom(scopes, j, key) ==
    IF j = 0 THEN None
    ELSE IF key \in DOMAIN scopes[j].funcs THEN SomeFn(scopes[j].funcs[key])
         ELSE ResolveFuncFrom(scopes, j - 1, key)

resolve_func(scopes, key) == ResolveFuncFrom(scopes, Len(scopes), key)

RECURSIVE ResolveNativeFuncFrom(_, _, _)
ResolveNativeFuncFrom(scopes, j, key) ==
    IF j = 0 THEN None
    ELSE IF key \in DOMAIN scopes[j].native_funcs
         THEN SomeNative(scopes[j].native_funcs[key])
         ELSE ResolveNativeFuncFrom(scopes, j - 1, key)

resolve_native_func(scopes, key) ==
    ResolveNativeFuncFrom(scopes, Len(scopes), key)

RECURSIVE ResolveVarFrom(_, _, _)
ResolveVarFrom(scopes, j, key) ==
    IF j = 0 THEN None
    ELSE IF key \in DOMAIN scopes[j].vars THEN Some(scopes[j].vars[key])
         ELSE ResolveVarFrom(scopes, j - 1, key)

\* resolve_var looking in the top scope and then in the root scope alone,
\* past the scopes of the callers
resolve_var_TopThenRoot(scopes, key) ==
    IF scopes = << >> THEN None
    ELSE IF key \in DOMAIN scopes[Len(scopes)].vars
         THEN Some(scopes[Len(scopes)].vars[key])
         ELSE IF key \in DOMAIN scopes[1].vars THEN Some(scopes[1].vars[key])
         ELSE None

resolve_var(scopes, key) == ResolveVarFrom(scopes, Len(scopes), key)


(***************************************************************************)
(* ast.rs: ExecResult, and the constructors of Expr and Stmt.              *)
(***************************************************************************)
RNone == [x |-> "None"]
RBreak == [x |-> "Break"]
RReturn(val) == [x |-> "Return", v |-> val]
RError(m) == [x |-> "Error", msg |-> m]
\* exec_result before the entry point has returned.
RPending == [x |-> "Pending"]

EInt(x) == [e |-> "Int", i |-> x]
EReal(num, den) == [e |-> "Real", n |-> num, d |-> den]
EBool(x) == [e |-> "Bool", b |-> x]
EStr(x) == [e |-> "Str", s |-> x]
ENone == [e |-> "None"]
EId(x) == [e |-> "Id", id |-> x]
EBinOp(l, o, r) == [e |-> "BinOp", lhs |-> l, opc |-> o, rhs |-> r]
EUnaryOp(o, x) == [e |-> "UnaryOp", opc |-> o, arg |-> x]
EFuncCall(f, a) == [e |-> "FuncCall", id |-> f, args |-> a]
EList(xs) == [e |-> "List", exprs |-> xs]
EDict(kvs) == [e |-> "Dict", items |-> kvs]
EListElement(x, ix) == [e |-> "ListElement", id |-> x, idx |-> ix]
KeyVal(k, x) == [key |-> k, val |-> x]

SBreak == [k |-> "Break"]
SExpr(x) == [k |-> "Expr", expr |-> x]
SFnDef(f, ps, b) == [k |-> "FnDef", id |-> f, arg_ids |-> ps, stmts |-> b]
SIf(c, b) == [k |-> "If", cond |-> c, stmts |-> b]
SIfElse(c, b1, b2) ==
    [k |-> "IfElse", cond |-> c, stmts |-> b1, else_stmts |-> b2]
SLet(x, ex) == [k |-> "Let", id |-> x, expr |-> ex]
SListItemAssignment(x, ix, ex) ==
    [k |-> "ListItemAssignment", id |-> x, idx |-> ix, val |-> ex]
SLoop(b) == [k |-> "Loop", stmts |-> b]
SReturn(ex) == [k |-> "Return", expr |-> ex]

Function(ps, b) == [arg_ids |-> ps, stmts |-> b]


(***************************************************************************)
(* Characters and the character-level helpers that both parsers use.  A    *)
(* source text is the sequence of its characters.                          *)
(***************************************************************************)
Digits == {"0", "1", "2", "3", "4", "5", "6", "7", "8", "9"}
DigitVal(c) ==
    CASE c = "0" -> 0 [] c = "1" -> 1 [] c = "2" -> 2 [] c = "3" -> 3
      [] c = "4" -> 4 [] c = "5" -> 5 [] c = "6" -> 6 [] c = "7" -> 7
      [] c = "8" -> 8 [] c = "9" -> 9
AlphaLower ==
    << "a", "b", "c", "d", "e", "f", "g", "h", "i", "j", "k", "l", "m",
       "n", "o", "p", "q", "r", "s", "t", "u", "v", "w", "x", "y", "z" >>
AlphaUpper ==
    << "A", "B", "C", "D", "E", "F", "G", "H", "I", "J", "K", "L", "M",
       "N", "O", "P", "Q", "R", "S", "T", "U", "V", "W", "X", "Y", "Z" >>
Range(q) == {q[j] : j \in DOMAIN q}
Alpha == Range(AlphaLower) \cup Range(AlphaUpper)
\* parser.rs is_ident_char
IdentChars == Alpha \cup Digits \cup {"_"}
\* nom::sp, char::is_whitespace on the ASCII range
Whitespace == {" ", "\t", "\r", "\n"}
ToLower(c) ==
    IF c \in Range(AlphaUpper)
    THEN AlphaLower[CHOOSE j \in DOMAIN AlphaUpper : AlphaUpper[j] = c]
    ELSE c

RECURSIVE TakeWhileIn(_, _, _)
\* the position after the longest run of characters of cs that starts at `at`
TakeWhileIn(s, at, cs) ==
    IF at <= Len(s) /\ s[at] \in cs THEN TakeWhileIn(s, at + 1, cs) ELSE at

RECURSIVE DigitsValue(_, _, _)
\* str::parse of the decimal digits s[from..to]
DigitsValue(s, from, to) ==
    IF to < from THEN 0
    ELSE 10 * DigitsValue(s, from, to - 1) + DigitVal(s[to])

RECURSIVE Pow10(_)
Pow10(j) == IF j = 0 THEN 1 ELSE 10 * Pow10(j - 1)

\* f64 of the decimal text with integer digits s[a..b] and fraction s[c..d]
DecimalValue(s, a, b, c, d) ==
    VReal(DigitsValue(s, a, b) * Pow10(d - c + 1) + DigitsValue(s, c, d),
          Pow10(d - c + 1))

(***************************************************************************)
(* parser.rs: the nom parsers over CompleteStr.  A parser takes the source *)
(* s and the position `at` of its input in s; Ok((rest, out)) is           *)
(* [ok |-> TRUE, at |-> the position of rest, out |-> out], and            *)
(* Err(Err::Error(_)) is [ok |-> FALSE].  No parser of parser.rs returns   *)
(* Err::Failure, and CompleteStr never yields Err::Incomplete.             *)
(***************************************************************************)
POk(pos, res) == [ok |-> TRUE, at |-> pos, out |-> res]
PErr == [ok |-> FALSE]

sp(s, at) == TakeWhileIn(s, at, Whitespace)

tag(s, at, t) ==
    IF at + Len(t) - 1 <= Len(s) /\ SubSeq(s, at, at + Len(t) - 1) = t
    THEN POk(at + Len(t), t)
    ELSE PErr

tag_no_case(s, at, t) ==
    IF /\ at + Len(t) - 1 <= Len(s)
       /\ \A j \in 1..Len(t) : ToLower(s[at + j - 1]) = t[j]
    THEN POk(at + Len(t), t)
    ELSE PErr

\* ws!(tag!(t)): whitespace, the tag, whitespace
ws_tag(s, at, t) ==
    LET r == tag(s, sp(s, at), t)
    IN IF r.ok THEN POk(sp(s, r.at), t) ELSE PErr

signed_number(sign, num) == IF sign = <<"-">> THEN -num ELSE num

number_sign(s, at) ==
    IF tag(s, at, <<"+">>).ok THEN tag(s, at, <<"+">>) ELSE tag(s, at, <<"-">>)

\* opt!(number_sign): the sign read, or << >>, and the position after it
OptSign(s, at) ==
    LET r == number_sign(s, at)
    IN IF r.ok THEN r ELSE POk(at, << >>)

real(s, at) ==
    LET sign == OptSign(s, at)
        dot == TakeWhileIn(s, sign.at, Digits)
        end == TakeWhileIn(s, dot + 1, Digits)
    IN IF tag(s, dot, <<".">>).ok /\ end > dot + 1
       THEN LET num == DecimalValue(s, sign.at, dot - 1, dot + 1, end - 1)
                val == signed_number(sign.out, num.n)
            IN POk(end, EReal(val, num.d))
       ELSE PErr

int(s, at) ==
    LET sign == OptSign(s, at)
        end == TakeWhileIn(s, sign.at, Digits)
    IN IF end > sign.at
       THEN POk(end, EInt(signed_number(sign.out,
                                        DigitsValue(s, sign.at, end - 1))))
       ELSE PErr

ident(s, at) ==
    IF at <= Len(s) /\ s[at] \in Alpha \cup {"_"}
    THEN LET end == TakeWhileIn(s, at + 1, IdentChars)
         IN POk(end, SubSeq(s, at, end - 1))
    ELSE PErr

logical_opcode(s, at) ==
    CASE tag(s, at, <<"&", "&">>).ok -> POk(at + 2, "LogicalAnd")
      [] tag(s, at, <<"|", "|">>).ok -> POk(at + 2, "LogicalOr")
      [] tag(s, at, <<"^">>).ok -> POk(at + 1, "LogicalXor")
      [] OTHER -> PErr

relational_opcode(s, at) ==
    CASE tag(s, at, <<"<", "=">>).ok -> POk(at + 2, "LessThanOrEqual")
      [] tag(s, at, <<">", "=">>).ok -> POk(at + 2, "GreaterThanOrEqual")
      [] tag(s, at, <<"=", "=">>).ok -> POk(at + 2, "Equal")
      [] tag(s, at, <<"!", "=">>).ok -> POk(at + 2, "NotEqual")
      [] tag(s, at, <<"<">>).ok -> POk(at + 1, "LessThan")
      [] tag(s, at, <<">">>).ok -> POk(at + 1, "GreaterThan")
      [] OTHER -> PErr

product_opcode(s, at) ==
    CASE tag(s, at, <<"*">>).ok -> POk(at + 1, "Mul")
      [] tag(s, at, <<"/">>).ok -> POk(at + 1, "Div")
      [] tag(s, at, <<"%">>).ok -> POk(at + 1, "Mod")
      [] OTHER -> PErr

sum_opcode(s, at) ==
    CASE tag(s, at, <<"+">>).ok -> POk(at + 1, "Add")
      [] tag(s, at, <<"-">>).ok -> POk(at + 1, "Sub")
      [] OTHER -> PErr

\* sum_expr and product_expr with each other's opcode parser
ws_opcode_SumProductSwapped(level, s, at) ==
    LET from == sp(s, at)
        r == CASE level = "logical_expr" -> logical_opcode(s, from)
               [] level = "relational_expr" -> relational_opcode(s, from)
               [] level = "product_expr" -> sum_opcode(s, from)
               [] level = "sum_expr" -> product_opcode(s, from)
    IN IF r.ok THEN POk(sp(s, r.at), r.out) ELSE PErr

\* ws!(opcode) with the opcode parser that the binary expression parser
\* `level` uses
ws_opcode(level, s, at) ==
    LET from == sp(s, at)
        r == CASE level = "logical_expr" -> logical_opcode(s, from)
               [] level = "relational_expr" -> relational_opcode(s, from)
               [] level = "product_expr" -> product_opcode(s, from)
               [] level = "sum_expr" -> sum_opcode(s, from)
    IN IF r.ok THEN POk(sp(s, r.at), r.out) ELSE PErr

bool_literal(s, at) ==
    CASE tag_no_case(s, at, <<"t", "r", "u", "e">>).ok ->
            POk(at + 4, EBool(TRUE))
      [] tag_no_case(s, at, <<"f", "a", "l", "s", "e">>).ok ->
            POk(at + 5, EBool(FALSE))
      [] OTHER -> PErr

float_literal(s, at) == real(s, at)

int_literal(s, at) == int(s, at)

str_literal(s, at) ==
    LET end == TakeWhileIn(s, at + 1, Range(s) \ {"\""})
    IN CASE tag(s, at, <<"\"">>).ok /\ end > at + 1 /\ tag(s, end, <<"\"">>).ok
              -> POk(end + 1, SubSeq(s, at + 1, end - 1))
         [] tag(s, at, <<"\"", "\"">>).ok -> POk(at + 2, << >>)
         [] OTHER -> PErr

\* The value v under the name of the parameter of F: v is computed once.
With(v, F(_)) == F(v)

RECURSIVE call(_, _, _)

\* alt!(p1 | p2 | ...): the result of the first of the parsers that
\* succeeds, for the two, nine and eleven alternatives of term, statement
\* and value_expr. A parser runs only when those before it have failed.
alt2(r1, r2) ==
    CASE r1.ok -> r1 [] r2.ok -> r2 [] OTHER -> PErr
alt9(r1, r2, r3, r4, r5, r6, r7, r8, r9) ==
    CASE r1.ok -> r1 [] r2.ok -> r2 [] r3.ok -> r3 [] r4.ok -> r4
      [] r5.ok -> r5 [] r6.ok -> r6 [] r7.ok -> r7 [] r8.ok -> r8
      [] r9.ok -> r9 [] OTHER -> PErr
alt11(r1, r2, r3, r4, r5, r6, r7, r8, r9, r10, r11) ==
    CASE r1.ok -> r1 [] r2.ok -> r2 [] r3.ok -> r3 [] r4.ok -> r4
      [] r5.ok -> r5 [] r6.ok -> r6 [] r7.ok -> r7 [] r8.ok -> r8
      [] r9.ok -> r9 [] r10.ok -> r10 [] r11.ok -> r11 [] OTHER -> PErr

RECURSIVE separated_list_loop(_, _, _, _, _)
\* The loop of separated_list!(ws!(tag!(sep)), elem) after the first
\* element: it stops, keeping the input before the separator, when the
\* separator or the element after it does not parse.
separated_list_loop(s, at, sep, elem, res) ==
    With(ws_tag(s, at, sep), LAMBDA r1 :
        IF ~r1.ok THEN POk(at, res)
        ELSE With(call(elem, s, r1.at), LAMBDA r2 :
            IF ~r2.ok \/ r2.at = r1.at THEN POk(at, res)
            ELSE separated_list_loop(s, r2.at, sep, elem,
                                     Append(res, r2.out))))

\* separated_list!: Ok with no element when the first element does not
\* parse; an error only when an element parses without consuming input.
separated_list(s, at, sep, elem) ==
    With(call(elem, s, at), LAMBDA r :
        IF ~r.ok THEN POk(at, << >>)
        ELSE IF r.at = at THEN PErr
        ELSE separated_list_loop(s, r.at, sep, elem, <<r.out>>))

\* delimited!(ws!(tag!(open)), inner, ws!(tag!(close))) where inner is a
\* parser or, with sep given, separated_list!(ws!(tag!(sep)), inner)
delimited(s, at, open, inner, sep, close) ==
    With(ws_tag(s, at, open), LAMBDA r1 :
        IF ~r1.ok THEN PErr
        ELSE With(IF sep = << >> THEN call(inner, s, r1.at)
                  ELSE separated_list(s, r1.at, sep, inner), LAMBDA r2 :
            IF ~r2.ok THEN PErr
            ELSE With(ws_tag(s, r2.at, close), LAMBDA r3 :
                IF r3.ok THEN POk(r3.at, r2.out) ELSE PErr)))

key_val_pair(s, at) ==
    With(str_literal(s, at), LAMBDA key :
        IF ~key.ok THEN PErr
        ELSE With(ws_tag(s, key.at, <<":">>), LAMBDA colon :
            IF ~colon.ok THEN PErr
            ELSE With(call("expr", s, colon.at), LAMBDA val :
                IF val.ok THEN POk(val.at, KeyVal(key.out, val.out))
                ELSE PErr)))

dict_literal(s, at) ==
    With(delimited(s, at, <<"{">>, "key_val_pair", <<",">>, <<"}">>), LAMBDA r :
        IF r.ok THEN POk(r.at, EDict(r.out)) ELSE PErr)

func_call(s, at) ==
    With(ident(s, at), LAMBDA id :
        IF ~id.ok THEN PErr
        ELSE With(delimited(s, id.at, <<"(">>, "expr", <<",">>, <<")">>), LAMBDA args :
            IF args.ok THEN POk(args.at, EFuncCall(id.out, args.out))
            ELSE PErr))

list_element(s, at) ==
    With(ident(s, at), LAMBDA id :
        IF ~id.ok THEN PErr
        ELSE With(delimited(s, id.at, <<"[">>, "expr", << >>, <<"]">>), LAMBDA idx :
            IF idx.ok THEN POk(idx.at, EListElement(id.out, idx.out))
            ELSE PErr))

list_literal(s, at) ==
    With(delimited(s, at, <<"[">>, "expr", <<",">>, <<"]">>), LAMBDA r :
        IF r.ok THEN POk(r.at, EList(r.out)) ELSE PErr)

unary_opcode(s, at) ==
    IF tag(s, at, <<"!">>).ok THEN POk(at + 1, "Not") ELSE PErr

unary_op(s, at) ==
    With(unary_opcode(s, at), LAMBDA op :
        IF ~op.ok THEN PErr
        ELSE With(call("expr", s, op.at), LAMBDA t :
            IF t.ok THEN POk(t.at, EUnaryOp(op.out, t.out)) ELSE PErr))

\* map!(str_literal, Expr::Str), map!(tag!("null"), |_| Expr::None) and
\* map!(ident, Expr::Id) of value_expr
str_value(s, at) ==
    With(str_literal(s, at), LAMBDA r :
        IF r.ok THEN POk(r.at, EStr(r.out)) ELSE PErr)
null_value(s, at) ==
    IF tag(s, at, <<"n", "u", "l", "l">>).ok THEN POk(at + 4, ENone) ELSE PErr
ident_value(s, at) ==
    With(ident(s, at), LAMBDA r :
        IF r.ok THEN POk(r.at, EId(r.out)) ELSE PErr)

value_expr(s, at) ==
    alt11(float_literal(s, at), int_literal(s, at), bool_literal(s, at),
          str_value(s, at), null_value(s, at), func_call(s, at),
          dict_literal(s, at), list_literal(s, at), list_element(s, at),
          unary_op(s, at), ident_value(s, at))

\* ws!(delimited!(tag!("("), expr, tag!(")"))): whitespace is skipped
\* before each of the three and after the last
paren_expr(s, at) ==
    With(tag(s, sp(s, at), <<"(">>), LAMBDA open :
        IF ~open.ok THEN PErr
        ELSE With(call("expr", s, sp(s, open.at)), LAMBDA inner :
            IF ~inner.ok THEN PErr
            ELSE With(tag(s, sp(s, inner.at), <<")">>), LAMBDA close :
                IF close.ok THEN POk(sp(s, close.at), inner.out) ELSE PErr)))

\* ws!(value_expr)
ws_value_expr(s, at) ==
    With(call("value_expr", s, sp(s, at)), LAMBDA r :
        IF r.ok THEN POk(sp(s, r.at), r.out) ELSE PErr)

term(s, at) == alt2(paren_expr(s, at), ws_value_expr(s, at))

\* logical_expr, relational_expr, product_expr and sum_expr are one shape:
\*   alt!(do_parse!(lhs: next >> op: ws!(opcode) >> rhs: this >> BinOp) | next)
\* The second alternative runs the parser of lhs on the same input, so it
\* yields what lhs yielded.
binary_expr(this, next, s, at) ==
    With(call(next, s, at), LAMBDA lhs :
        IF ~lhs.ok THEN lhs
        ELSE With(ws_opcode(this, s, lhs.at), LAMBDA op :
            IF ~op.ok THEN lhs
            ELSE With(call(this, s, op.at), LAMBDA rhs :
                IF rhs.ok THEN POk(rhs.at, EBinOp(lhs.out, op.out, rhs.out))
                ELSE lhs)))

logical_expr(s, at) == binary_expr("logical_expr", "term", s, at)
relational_expr(s, at) ==
    binary_expr("relational_expr", "logical_expr", s, at)
product_expr(s, at) == binary_expr("product_expr", "relational_expr", s, at)
sum_expr(s, at) == binary_expr("sum_expr", "product_expr", s, at)

expr(s, at) == call("sum_expr", s, at)

\* ws!(expr)
ws_expr(s, at) ==
    With(call("expr", s, sp(s, at)), LAMBDA r :
        IF r.ok THEN POk(sp(s, r.at), r.out) ELSE PErr)

break_statement(s, at) ==
    IF ws_tag(s, at, <<"b", "r", "e", "a", "k">>).ok
    THEN POk(ws_tag(s, at, <<"b", "r", "e", "a", "k">>).at, SBreak)
    ELSE PErr

expr_statement(s, at) ==
    With(call("expr", s, at), LAMBDA r :
        IF r.ok THEN POk(r.at, SExpr(r.out)) ELSE PErr)

\* statements: separated_list!(ws!(tag!(";")), statement) >> opt!(tag!(";"))
statements(s, at) ==
    With(separated_list(s, at, <<";">>, "statement"), LAMBDA list :
        IF ~list.ok THEN PErr
        ELSE IF tag(s, list.at, <<";">>).ok THEN POk(list.at + 1, list.out)
        ELSE list)

statement_block(s, at) == delimited(s, at, <<"{">>, "statements", << >>, <<"}">>)

fndef_statement(s, at) ==
    With(ws_tag(s, at, <<"f", "n">>), LAMBDA kw :
        IF ~kw.ok THEN PErr
        ELSE With(ident(s, kw.at), LAMBDA id :
            IF ~id.ok THEN PErr
            ELSE With(delimited(s, id.at, <<"(">>, "ident", <<",">>, <<")">>),
                      LAMBDA args :
                IF ~args.ok THEN PErr
                ELSE With(call("statement_block", s, args.at), LAMBDA stmts :
                    IF stmts.ok
                    THEN POk(stmts.at, SFnDef(id.out, args.out, stmts.out))
                    ELSE PErr))))

\* ws!(tag!("if")) >> cond: expr >> stmts: statement_block
IfHead(s, at) ==
    With(ws_tag(s, at, <<"i", "f">>), LAMBDA kw :
        IF ~kw.ok THEN PErr
        ELSE With(call("expr", s, kw.at), LAMBDA cond :
            IF ~cond.ok THEN PErr
            ELSE With(call("statement_block", s, cond.at), LAMBDA stmts :
                IF stmts.ok THEN POk(stmts.at, SIf(cond.out, stmts.out))
                ELSE PErr)))

if_statement(s, at) == IfHead(s, at)

if_else_statement(s, at) ==
    With(IfHead(s, at), LAMBDA head :
        IF ~head.ok THEN PErr
        ELSE With(ws_tag(s, head.at, <<"e", "l", "s", "e">>), LAMBDA else :
            IF ~else.ok THEN PErr
            ELSE With(call("statement_block", s, else.at), LAMBDA stmts_f :
                IF stmts_f.ok
                THEN POk(stmts_f.at, SIfElse(head.out.cond, head.out.stmts,
                                             stmts_f.out))
                ELSE PErr)))

let_statement(s, at) ==
    With(ws_tag(s, at, <<"l", "e", "t">>), LAMBDA kw :
        IF ~kw.ok THEN PErr
        ELSE With(ident(s, kw.at), LAMBDA id :
            IF ~id.ok THEN PErr
            ELSE With(ws_tag(s, id.at, <<"=">>), LAMBDA eq :
                IF ~eq.ok THEN PErr
                ELSE With(ws_expr(s, eq.at), LAMBDA val :
                    IF val.ok THEN POk(val.at, SLet(id.out, val.out))
                    ELSE PErr))))

list_assignment_statement(s, at) ==
    With(ident(s, at), LAMBDA id :
        IF ~id.ok THEN PErr
        ELSE With(delimited(s, id.at, <<"[">>, "expr", << >>, <<"]">>), LAMBDA idx :
            IF ~idx.ok THEN PErr
            ELSE With(ws_tag(s, idx.at, <<"=">>), LAMBDA eq :
                IF ~eq.ok THEN PErr
                ELSE With(ws_expr(s, eq.at), LAMBDA val :
                    IF val.ok
                    THEN POk(val.at,
                             SListItemAssignment(id.out, idx.out, val.out))
                    ELSE PErr))))

loop_statement(s, at) ==
    With(ws_tag(s, at, <<"l", "o", "o", "p">>), LAMBDA kw :
        IF ~kw.ok THEN PErr
        ELSE With(call("statement_block", s, kw.at), LAMBDA stmts :
            IF stmts.ok THEN POk(stmts.at, SLoop(stmts.out)) ELSE PErr))

return_statement(s, at) ==
    With(ws_tag(s, at, <<"r", "e", "t", "u", "r", "n">>), LAMBDA kw :
        IF ~kw.ok THEN PErr
        ELSE With(ws_expr(s, kw.at), LAMBDA val :
            IF val.ok THEN POk(val.at, SReturn(val.out)) ELSE PErr))

statement(s, at) ==
    alt9(break_statement(s, at), fndef_statement(s, at),
         if_else_statement(s, at), if_statement(s, at), let_statement(s, at),
         list_assignment_statement(s, at), loop_statement(s, at),
         return_statement(s, at), expr_statement(s, at))

\* call!(parser): the named! parser of that name
call(parser, s, at) ==
    CASE parser = "bool_literal" -> bool_literal(s, at)
      [] parser = "break_statement" -> break_statement(s, at)
      [] parser = "dict_literal" -> dict_literal(s, at)
      [] parser = "expr" -> expr(s, at)
      [] parser = "expr_statement" -> expr_statement(s, at)
      [] parser = "float_literal" -> float_literal(s, at)
      [] parser = "fndef_statement" -> fndef_statement(s, at)
      [] parser = "func_call" -> func_call(s, at)
      [] parser = "ident" -> ident(s, at)
      [] parser = "ident_value" -> ident_value(s, at)
      [] parser = "if_else_statement" -> if_else_statement(s, at)
      [] parser = "if_statement" -> if_statement(s, at)
      [] parser = "int_literal" -> int_literal(s, at)
      [] parser = "key_val_pair" -> key_val_pair(s, at)
      [] parser = "let_statement" -> let_statement(s, at)
      [] parser = "list_assignment_statement" ->
            list_assignment_statement(s, at)
      [] parser = "list_element" -> list_element(s, at)
      [] parser = "list_literal" -> list_literal(s, at)
      [] parser = "logical_expr" -> logical_expr(s, at)
      [] parser = "loop_statement" -> loop_statement(s, at)
      [] parser = "null_value" -> null_value(s, at)
      [] parser = "paren_expr" -> paren_expr(s, at)
      [] parser = "product_expr" -> product_expr(s, at)
      [] parser = "relational_expr" -> relational_expr(s, at)
      [] parser = "return_statement" -> return_statement(s, at)
      [] parser = "statement" -> statement(s, at)
      [] parser = "statement_block" -> statement_block(s, at)
      [] parser = "statements" -> statements(s, at)
      [] parser = "str_value" -> str_value(s, at)
      [] parser = "sum_expr" -> sum_expr(s, at)
      [] parser = "term" -> term(s, at)
      [] parser = "unary_op" -> unary_op(s, at)
      [] parser = "value_expr" -> value_expr(s, at)
      [] parser = "ws_value_expr" -> ws_value_expr(s, at)

program_parser(s) == call("statements", s, 1)

\* Result<StmtBlock, &'static str>
Ok(block) == [o |-> "Ok", stmts |-> block]
Err(m) == [o |-> "Err", msg |-> m]

parse(src) ==
    IF program_parser(src).ok
    THEN Ok(program_parser(src).out)
    ELSE Err("Unable to parse source")

(***************************************************************************)
(* p64lang.rs: the parser LALRPOP generated, which lib.rs uses.            *)
(* __Matcher::next is its lexer; the grammar is the one of the reduce      *)
(* actions of __parse__Program, read off as the deterministic parser of    *)
(* that (LALR(1), unambiguous) grammar: Ok(block) for the texts of the     *)
(* grammar, Err for every other text.                                      *)
(***************************************************************************)
\* __regex_vec[4..36]: the literal terminals of the grammar
LiteralTerminals ==
    << <<"!">>, <<"!", "=">>, <<"%">>, <<"&", "&">>, <<"(">>, <<")">>, <<"*">>, <<"+">>, <<",">>, <<"-">>, <<"/">>,
       <<";">>, <<"<">>, <<"<", "=">>, <<"=">>, <<"=", "=">>, <<">">>, <<">", "=">>, <<"[">>, <<"]">>, <<"^">>,
       <<"b", "r", "e", "a", "k">>, <<"e", "l", "s", "e">>, <<"f", "a", "l", "s", "e">>, <<"f", "n">>, <<"i", "f">>, <<"l", "e", "t">>, <<"l", "o", "o", "p">>,
       <<"r", "e", "t", "u", "r", "n">>, <<"t", "r", "u", "e">>, <<"{">>, <<"|", "|">>, <<"}">> >>

Max(x, y) == IF x > y THEN x ELSE y

RECURSIVE LiteralMatch(_, _, _)
\* the length of the longest of LiteralTerminals[1..j] that matches at `at`
LiteralMatch(s, at, j) ==
    IF j = 0 THEN 0
    ELSE Max(IF tag(s, at, LiteralTerminals[j]).ok
             THEN Len(LiteralTerminals[j]) ELSE 0,
             LiteralMatch(s, at, j - 1))

\* the length of the match of each regex of __regex_vec[0..3] at `at`
LiteralStrMatch(s, at) ==
    LET end == TakeWhileIn(s, at + 1, Range(s) \ {"\""})
    IN IF s[at] = "\"" /\ end <= Len(s) THEN end + 1 - at ELSE 0

RealNumMatch(s, at) ==
    LET from == IF s[at] = "-" THEN at + 1 ELSE at
        dot == TakeWhileIn(s, from, Digits)
        end == TakeWhileIn(s, dot + 1, Digits)
    IN IF tag(s, dot, <<".">>).ok /\ end > dot + 1 THEN end - at ELSE 0

IntNumMatch(s, at) ==
    LET from == IF s[at] = "-" THEN at + 1 ELSE at
        end == TakeWhileIn(s, from, Digits)
    IN IF end > from THEN end - at ELSE 0

IdMatch(s, at) ==
    IF s[at] \in Alpha \cup {"_"}
    THEN TakeWhileIn(s, at + 1, IdentChars) - at
    ELSE 0

Token(kind, str) == [tok |-> kind, text |-> str]

\* __Matcher::next on non-empty trimmed text: the longest match, and of two
\* longest matches the one of the higher index (a keyword before Id).
Matcher_next(s, at) ==
    LET lit == LiteralMatch(s, at, Len(LiteralTerminals))
        str == LiteralStrMatch(s, at)
        realnum == RealNumMatch(s, at)
        intnum == IntNumMatch(s, at)
        id == IdMatch(s, at)
        longest == Max(Max(lit, str), Max(Max(realnum, intnum), id))
        kind == CASE lit = longest -> "Literal"
                  [] id = longest -> "Id"
                  [] intnum = longest -> "IntNum"
                  [] realnum = longest -> "RealNum"
                  [] OTHER -> "LiteralStr"
    IN IF longest = 0 THEN PErr
       ELSE POk(at + longest, Token(kind, SubSeq(s, at, at + longest - 1)))

RECURSIVE Matcher_tokens(_, _, _)
\* the tokens the parser draws from the matcher, or the InvalidToken error
Matcher_tokens(s, at, acc) ==
    LET from == sp(s, at)
        t == Matcher_next(s, from)
    IN IF from > Len(s) THEN POk(from, acc)
       ELSE IF ~t.ok THEN PErr
       ELSE Matcher_tokens(s, t.at, Append(acc, t.out))

IsTerminal(toks, j, str) ==
    j <= Len(toks) /\ toks[j].tok = "Literal" /\ toks[j].text = str
IsToken(toks, j, kind) == j <= Len(toks) /\ toks[j].tok = kind

\* __action48, __action49, __action50: isize::from_str, f64::from_str and
\* the text of a string literal without its quotes
IntNum(str) ==
    IF str[1] = "-" THEN -DigitsValue(str, 2, Len(str))
    ELSE DigitsValue(str, 1, Len(str))

RealNum(str) ==
    LET from == IF str[1] = "-" THEN 2 ELSE 1
        dot == TakeWhileIn(str, from, Digits)
        num == DecimalValue(str, from, dot - 1, dot + 1, Len(str))
    IN EReal(IF str[1] = "-" THEN -num.n ELSE num.n, num.d)

LiteralStr(str) == SubSeq(str, 2, Len(str) - 1)

RECURSIVE Nonterminal(_, _, _)

RECURSIVE DelimitedList(_, _, _, _, _)
\* DelimitedList<T, sep> = (<T> sep)* T?
DelimitedList(item, sep, toks, j, acc) ==
    With(Nonterminal(item, toks, j), LAMBDA e :
        IF ~e.ok THEN POk(j, acc)
        ELSE IF IsTerminal(toks, e.at, sep)
             THEN DelimitedList(item, sep, toks, e.at + 1, Append(acc, e.out))
             ELSE POk(e.at, Append(acc, e.out)))

\* open X close, where X is a nonterminal or, with sep given, a
\* DelimitedList<X, sep>
Enclosed(open, inner, sep, close, toks, j) ==
    IF ~IsTerminal(toks, j, open) THEN PErr
    ELSE With(IF sep = << >> THEN Nonterminal(inner, toks, j + 1)
              ELSE DelimitedList(inner, sep, toks, j + 1, << >>), LAMBDA r :
        IF r.ok /\ IsTerminal(toks, r.at, close) THEN POk(r.at + 1, r.out)
        ELSE PErr)

Id(toks, j) ==
    IF IsToken(toks, j, "Id") THEN POk(j + 1, toks[j].text) ELSE PErr

Term(toks, j) ==
    CASE IsToken(toks, j, "IntNum") -> POk(j + 1, EInt(IntNum(toks[j].text)))
      [] IsToken(toks, j, "RealNum") -> POk(j + 1, RealNum(toks[j].text))
      [] IsToken(toks, j, "LiteralStr") ->
            POk(j + 1, EStr(LiteralStr(toks[j].text)))
      [] IsTerminal(toks, j, <<"t", "r", "u", "e">>) -> POk(j + 1, EBool(TRUE))
      [] IsTerminal(toks, j, <<"f", "a", "l", "s", "e">>) -> POk(j + 1, EBool(FALSE))
      [] IsToken(toks, j, "Id") /\ IsTerminal(toks, j + 1, <<"(">>) ->
            With(Enclosed(<<"(">>, "Expr", <<",">>, <<")">>, toks, j + 1), LAMBDA args :
                IF args.ok
                THEN POk(args.at, EFuncCall(toks[j].text, args.out))
                ELSE PErr)
      [] IsToken(toks, j, "Id") /\ IsTerminal(toks, j + 1, <<"[">>) ->
            With(Enclosed(<<"[">>, "Expr", << >>, <<"]">>, toks, j + 1), LAMBDA idx :
                IF idx.ok
                THEN POk(idx.at, EListElement(toks[j].text, idx.out))
                ELSE PErr)
      [] IsToken(toks, j, "Id") -> POk(j + 1, EId(toks[j].text))
      [] IsTerminal(toks, j, <<"(">>) ->
            Enclosed(<<"(">>, "Expr", << >>, <<")">>, toks, j)
      [] IsTerminal(toks, j, <<"[">>) ->
            With(Enclosed(<<"[">>, "Expr", <<",">>, <<"]">>, toks, j), LAMBDA items :
                IF items.ok THEN POk(items.at, EList(items.out)) ELSE PErr)
      [] IsTerminal(toks, j, <<"!">>) ->
            With(Nonterminal("Term", toks, j + 1), LAMBDA t :
                IF t.ok THEN POk(t.at, EUnaryOp("Not", t.out)) ELSE PErr)
      [] OTHER -> PErr

MultiplicativeExprOp(toks, j) ==
    CASE IsTerminal(toks, j, <<"*">>) -> Some("Mul")
      [] IsTerminal(toks, j, <<"/">>) -> Some("Div")
      [] IsTerminal(toks, j, <<"%">>) -> Some("Mod")
      [] OTHER -> None

AdditiveExprOp(toks, j) ==
    CASE IsTerminal(toks, j, <<"+">>) -> Some("Add")
      [] IsTerminal(toks, j, <<"-">>) -> Some("Sub")
      [] OTHER -> None

RelationalExprOp(toks, j) ==
    CASE IsTerminal(toks, j, <<"<">>) -> Some("LessThan")
      [] IsTerminal(toks, j, <<">">>) -> Some("GreaterThan")
      [] IsTerminal(toks, j, <<"<", "=">>) -> Some("LessThanOrEqual")
      [] IsTerminal(toks, j, <<">", "=">>) -> Some("GreaterThanOrEqual")
      [] IsTerminal(toks, j, <<"=", "=">>) -> Some("Equal")
      [] IsTerminal(toks, j, <<"!", "=">>) -> Some("NotEqual")
      [] OTHER -> None

LogicalExprOp(toks, j) ==
    CASE IsTerminal(toks, j, <<"&", "&">>) -> Some("LogicalAnd")
      [] IsTerminal(toks, j, <<"|", "|">>) -> Some("LogicalOr")
      [] IsTerminal(toks, j, <<"^">>) -> Some("LogicalXor")
      [] OTHER -> None

ExprOp(this, toks, j) ==
    CASE this = "MultiplicativeExpr" -> MultiplicativeExprOp(toks, j)
      [] this = "AdditiveExpr" -> AdditiveExprOp(toks, j)
      [] this = "RelationalExpr" -> RelationalExprOp(toks, j)
      [] this = "LogicalExpr" -> LogicalExprOp(toks, j)

RECURSIVE LeftAssoc(_, _, _, _, _)
\* The productions  X = X XOp Y | Y  of the four levels of binary
\* expressions: a Y, then every "XOp Y" that follows, grouped to the left.
LeftAssoc(this, next, toks, lhs, j) ==
    With(ExprOp(this, toks, j), LAMBDA op :
        IF op = None THEN POk(j, lhs)
        ELSE With(Nonterminal(next, toks, j + 1), LAMBDA rhs :
            IF ~rhs.ok THEN PErr
            ELSE LeftAssoc(this, next, toks, EBinOp(lhs, op.v, rhs.out),
                           rhs.at)))

BinaryExpr(this, next, toks, j) ==
    With(Nonterminal(next, toks, j), LAMBDA first :
        IF first.ok THEN LeftAssoc(this, next, toks, first.out, first.at)
        ELSE PErr)

MultiplicativeExpr(toks, j) ==
    BinaryExpr("MultiplicativeExpr", "Term", toks, j)
AdditiveExpr(toks, j) ==
    BinaryExpr("AdditiveExpr", "MultiplicativeExpr", toks, j)
RelationalExpr(toks, j) ==
    BinaryExpr("RelationalExpr", "AdditiveExpr", toks, j)
LogicalExpr(toks, j) == BinaryExpr("LogicalExpr", "RelationalExpr", toks, j)

Expr(toks, j) == Nonterminal("LogicalExpr", toks, j)

Stmts(toks, j) == DelimitedList("Stmt", <<";">>, toks, j, << >>)

\* "{" Stmts "}"
Block(toks, j) == Enclosed(<<"{">>, "Stmts", << >>, <<"}">>, toks, j)

\* "let" Id "=" Expr
StmtLet(toks, j) ==
    With(Id(toks, j + 1), LAMBDA id :
        IF ~(id.ok /\ IsTerminal(toks, id.at, <<"=">>)) THEN PErr
        ELSE With(Nonterminal("Expr", toks, id.at + 1), LAMBDA val :
            IF val.ok THEN POk(val.at, SLet(id.out, val.out)) ELSE PErr))

\* "fn" Id "(" DelimitedList<Id, ","> ")" "{" Stmts "}"
StmtFnDef(toks, j) ==
    With(Id(toks, j + 1), LAMBDA id :
        IF ~id.ok THEN PErr
        ELSE With(Enclosed(<<"(">>, "Id", <<",">>, <<")">>, toks, id.at), LAMBDA args :
            IF ~args.ok THEN PErr
            ELSE With(Nonterminal("Block", toks, args.at), LAMBDA body :
                IF body.ok
                THEN POk(body.at, SFnDef(id.out, args.out, body.out))
                ELSE PErr)))

\* "return" Expr
StmtReturn(toks, j) ==
    With(Nonterminal("Expr", toks, j + 1), LAMBDA val :
        IF val.ok THEN POk(val.at, SReturn(val.out)) ELSE PErr)

\* "if" Expr "{" Stmts "}", and the same followed by "else" "{" Stmts "}"
StmtIf(toks, j) ==
    With(Nonterminal("Expr", toks, j + 1), LAMBDA cond :
        IF ~cond.ok THEN PErr
        ELSE With(Nonterminal("Block", toks, cond.at), LAMBDA body :
            IF ~body.ok THEN PErr
            ELSE IF ~IsTerminal(toks, body.at, <<"e", "l", "s", "e">>)
                 THEN POk(body.at, SIf(cond.out, body.out))
            ELSE With(Nonterminal("Block", toks, body.at + 1), LAMBDA other :
                IF other.ok
                THEN POk(other.at, SIfElse(cond.out, body.out, other.out))
                ELSE PErr)))

\* "loop" "{" Stmts "}"
StmtLoop(toks, j) ==
    With(Nonterminal("Block", toks, j + 1), LAMBDA body :
        IF body.ok THEN POk(body.at, SLoop(body.out)) ELSE PErr)

\* Id "[" Expr "]" "=" Expr
StmtListItemAssignment(toks, j) ==
    With(Enclosed(<<"[">>, "Expr", << >>, <<"]">>, toks, j + 1), LAMBDA idx :
        IF ~(IsToken(toks, j, "Id") /\ idx.ok /\ IsTerminal(toks, idx.at, <<"=">>))
        THEN PErr
        ELSE With(Nonterminal("Expr", toks, idx.at + 1), LAMBDA val :
            IF val.ok
            THEN POk(val.at,
                     SListItemAssignment(toks[j].text, idx.out, val.out))
            ELSE PErr))

\* Expr
StmtExpr(toks, j) ==
    With(Nonterminal("Expr", toks, j), LAMBDA ex :
        IF ex.ok THEN POk(ex.at, SExpr(ex.out)) ELSE PErr)

\* Id "[" Expr "]" is the head of an assignment exactly when "=" follows it.
AssignmentAhead(toks, j) ==
    With(Enclosed(<<"[">>, "Expr", << >>, <<"]">>, toks, j + 1), LAMBDA idx :
        IsToken(toks, j, "Id") /\ idx.ok /\ IsTerminal(toks, idx.at, <<"=">>))

Stmt(toks, j) ==
    CASE IsTerminal(toks, j, <<"l", "e", "t">>) -> StmtLet(toks, j)
      [] IsTerminal(toks, j, <<"f", "n">>) -> StmtFnDef(toks, j)
      [] IsTerminal(toks, j, <<"r", "e", "t", "u", "r", "n">>) -> StmtReturn(toks, j)
      [] IsTerminal(toks, j, <<"i", "f">>) -> StmtIf(toks, j)
      [] IsTerminal(toks, j, <<"l", "o", "o", "p">>) -> StmtLoop(toks, j)
      [] IsTerminal(toks, j, <<"b", "r", "e", "a", "k">>) -> POk(j + 1, SBreak)
      [] OTHER -> IF AssignmentAhead(toks, j)
                  THEN StmtListItemAssignment(toks, j)
                  ELSE StmtExpr(toks, j)

Nonterminal(name, toks, j) ==
    CASE name = "AdditiveExpr" -> AdditiveExpr(toks, j)
      [] name = "Block" -> Block(toks, j)
      [] name = "Expr" -> Expr(toks, j)
      [] name = "Id" -> Id(toks, j)
      [] name = "LogicalExpr" -> LogicalExpr(toks, j)
      [] name = "MultiplicativeExpr" -> MultiplicativeExpr(toks, j)
      [] name = "RelationalExpr" -> RelationalExpr(toks, j)
      [] name = "Stmt" -> Stmt(toks, j)
      [] name = "Stmts" -> Stmts(toks, j)
      [] name = "Term" -> Term(toks, j)

\* The parser of parser.rs in the place of the generated parser
ProgramParser_parse_Nom(input) == parse(input)

\* ProgramParser::parse: Program = Stmts, then the end of the input
ProgramParser_parse(input) ==
    With(Matcher_tokens(input, 1, << >>), LAMBDA tokens :
        IF ~tokens.ok THEN Err("ParseError")
        ELSE With(Nonterminal("Stmts", tokens.out, 1), LAMBDA block :
            IF block.ok /\ block.at = Len(tokens.out) + 1
            THEN Ok(block.out)
            ELSE Err("ParseError")))

(***************************************************************************)
(* Bounds of the model.                                                    *)
(***************************************************************************)
\* The deepest ScopeChain a run may build (nested script-function calls).
MaxDepth == 6
\* The most NativeFunction::execute calls a run may make.
MaxCalls == 6
\* The most pieces of text a source text for the parser is made of.
MaxPieces == 2
\* The longest list literal and the greatest index of the list assignments
MaxListLen == 2
MaxIndex == 4
\* The most argument values of a call of the two-parameter function of
\* ProgArity
MaxArgs == 3

(***************************************************************************)
(* The state of one run.                                                   *)
(*   entry        which entry point the host called: "interpret" (lib.rs), *)
(*                "exec" (Executable::exec on a StmtBlock) or "parse"      *)
(*                (parser.rs)                                              *)
(*   source       the source text handed to interpret or to parse          *)
(*   parsed       the Result of the parser, once it has been called        *)
(*   program      the StmtBlock under execution                            *)
(*   global_scope the root Scope the host supplied                         *)
(*   host_chain   the ScopeChain the host built on that Scope before it    *)
(*                called exec                                              *)
(*   scopes       the ScopeChain                                           *)
(*   ctl          what the evaluator does next: execute a statement or a   *)
(*                block, evaluate an expression, or hand a Value ("val")   *)
(*                or an ExecResult ("res") to the caller on top of `stack` *)
(*   stack        the callers: one record per eval/exec/execute call that  *)
(*                waits for a callee, innermost last                       *)
(*   exec_result  InterpretResult.exec_result (the result of exec)         *)
(*   stdout       what print!/println! wrote, one record per write         *)
(*   native_log   the NativeFunction::execute calls made, in order         *)
(*   first_run    what an earlier call of interpret on the same source and *)
(*                an equal root scope gave, once the host calls it again   *)
(***************************************************************************)
VARIABLES entry, source, parsed, program, global_scope, host_chain, scopes,
          ctl, stack, exec_result, stdout, native_log, first_run

vars == <<entry, source, parsed, program, global_scope, host_chain, scopes,
          ctl, stack, exec_result, stdout, native_log, first_run>>
\* What the host passed in and what the parser made of it: fixed while a
\* block executes.
inputs == <<entry, source, global_scope, host_chain, parsed, first_run>>
io == <<stdout, native_log>>

\* `parsed` before the parser has been called.
Pending == [o |-> "Pending"]

CStart == [m |-> "start"]
CStmt(st) == [m |-> "stmt", stm |-> st]
CBlock(b) == [m |-> "block", stmts |-> b]
CExpr(ex) == [m |-> "expr", expr |-> ex]
CVal(val) == [m |-> "val", v |-> val]
CRes(res) == [m |-> "res", r |-> res]
CDone == [m |-> "done"]
CPanic == [m |-> "panic"]

Top == stack[Len(stack)]
Pop == SubSeq(stack, 1, Len(stack) - 1)
Push(fr) == Append(stack, fr)
Replace(fr) == [stack EXCEPT ![Len(stack)] = fr]
TopIs(name) == stack # << >> /\ Top.f = name

AtStmt(kind) == ctl.m = "stmt" /\ ctl.stm.k = kind
AtExpr(kind) == ctl.m = "expr" /\ ctl.expr.e = kind
ValFor(name) == ctl.m = "val" /\ TopIs(name)
ResFor(name) == ctl.m = "res" /\ TopIs(name)


(***************************************************************************)
(* impl Executable for StmtBlock (interpreter.rs): the for loop over the   *)
(* statements.  StmtBlock_match is the match on one statement's result:    *)
(* the ExecResult the block returns at once, or None to go on.             *)
(***************************************************************************)
SomeRes(res) == [o |-> "Some", r |-> res]

StmtBlock_match(res) ==
    CASE res.x = "Return" -> SomeRes(res)
      [] res.x = "Break" -> SomeRes(RBreak)
      [] OTHER -> None

StmtBlock_exec ==
    /\ ctl.m = "block"
    /\ IF ctl.stmts = << >>
       THEN ctl' = CRes(RNone) /\ stack' = stack
       ELSE /\ ctl' = CStmt(ctl.stmts[1])
            /\ stack' = Push([f |-> "block", stmts |-> ctl.stmts, pc |-> 1])
    /\ UNCHANGED <<inputs, program, scopes, exec_result, io>>

StmtBlock_next ==
    /\ ResFor("block")
    /\ LET ret == StmtBlock_match(ctl.r)
       IN IF ret.o = "Some"
          THEN ctl' = CRes(ret.r) /\ stack' = Pop
          ELSE IF Top.pc < Len(Top.stmts)
               THEN /\ ctl' = CStmt(Top.stmts[Top.pc + 1])
                    /\ stack' = Replace([Top EXCEPT !.pc = @ + 1])
               ELSE ctl' = CRes(RNone) /\ stack' = Pop
    /\ UNCHANGED <<inputs, program, scopes, exec_result, io>>

(***************************************************************************)
(* impl Executable for Stmt (interpreter.rs): one action per match arm,    *)
(* and one per point where the arm resumes after a callee returned.        *)
(***************************************************************************)
Stmt_Break ==
    /\ AtStmt("Break")
    /\ ctl' = CRes(RBreak)
    /\ UNCHANGED <<inputs, program, scopes, stack, exec_result, io>>

Stmt_Expr ==
    /\ AtStmt("Expr")
    /\ ctl' = CExpr(ctl.stm.expr)
    /\ stack' = Push([f |-> "expr_stmt"])
    /\ UNCHANGED <<inputs, program, scopes, exec_result, io>>

Stmt_Expr_done ==
    /\ ValFor("expr_stmt")
    /\ ctl' = CRes(RNone)
    /\ stack' = Pop
    /\ UNCHANGED <<inputs, program, scopes, exec_result, io>>

Stmt_FnDef ==
    /\ AtStmt("FnDef")
    /\ scopes' = insert_func(scopes, ctl.stm.id,
                             Function(ctl.stm.arg_ids, ctl.stm.stmts))
    /\ ctl' = CRes(RNone)
    /\ UNCHANGED <<inputs, program, stack, exec_result, io>>

Stmt_If ==
    /\ AtStmt("If")
    /\ ctl' = CExpr(ctl.stm.cond)
    /\ stack' = Push([f |-> "if", stmts |-> ctl.stm.stmts])
    /\ UNCHANGED <<inputs, program, scopes, exec_result, io>>

\* Stmt::If running its block in a scope of its own
Stmt_If_cond_NewScope ==
    /\ ValFor("if")
    /\ IF ctl.v.t = "Bool" /\ ctl.v.b
       THEN /\ ctl' = CBlock(Top.stmts)
            /\ scopes' = ScopeChain_push(scopes, Scope_new)
       ELSE ctl' = CRes(RNone) /\ scopes' = scopes
    /\ stack' = Pop
    /\ UNCHANGED <<inputs, program, exec_result, io>>

Stmt_If_cond ==
    /\ ValFor("if")
    /\ IF ctl.v.t = "Bool"
       THEN IF ctl.v.b THEN ctl' = CBlock(Top.stmts) ELSE ctl' = CRes(RNone)
       ELSE ctl' = CRes(RNone)
    /\ stack' = Pop
    /\ UNCHANGED <<inputs, program, scopes, exec_result, io>>

Stmt_IfElse ==
    /\ AtStmt("IfElse")
    /\ ctl' = CExpr(ctl.stm.cond)
    /\ stack' = Push([f |-> "if_else", stmts |-> ctl.stm.stmts,
                      else_stmts |-> ctl.stm.else_stmts])
    /\ UNCHANGED <<inputs, program, scopes, exec_result, io>>

\* Stmt::IfElse with a condition that is not a Bool running neither block,
\* as Stmt::If does
Stmt_IfElse_cond_NonBoolSkips ==
    /\ ValFor("if_else")
    /\ IF ctl.v.t = "Bool"
       THEN IF ctl.v.b THEN ctl' = CBlock(Top.stmts)
                       ELSE ctl' = CBlock(Top.else_stmts)
       ELSE ctl' = CRes(RNone)
    /\ stack' = Pop
    /\ UNCHANGED <<inputs, program, scopes, exec_result, io>>

Stmt_IfElse_cond ==
    /\ ValFor("if_else")
    /\ IF ctl.v.t = "Bool"
       THEN IF ctl.v.b THEN ctl' = CBlock(Top.stmts)
                       ELSE ctl' = CBlock(Top.else_stmts)
       ELSE ctl' = CBlock(Top.else_stmts)
    /\ stack' = Pop
    /\ UNCHANGED <<inputs, program, scopes, exec_result, io>>

Stmt_Let ==
    /\ AtStmt("Let")
    /\ ctl' = CExpr(ctl.stm.expr)
    /\ stack' = Push([f |-> "let", id |-> ctl.stm.id])
    /\ UNCHANGED <<inputs, program, scopes, exec_result, io>>

Stmt_Let_insert ==
    /\ ValFor("let")
    /\ scopes' = insert_var(scopes, Top.id, ctl.v)
    /\ ctl' = CRes(RNone)
    /\ stack' = Pop
    /\ UNCHANGED <<inputs, program, exec_result, io>>

Stmt_ListItemAssignment ==
    /\ AtStmt("ListItemAssignment")
    /\ ctl' = CExpr(ctl.stm.idx)
    /\ stack' = Push([f |-> "assign_idx", id |-> ctl.stm.id, val |-> ctl.stm.val])
    /\ UNCHANGED <<inputs, program, scopes, exec_result, io>>

Stmt_ListItemAssignment_idx ==
    /\ ValFor("assign_idx")
    /\ ctl' = CExpr(Top.val)
    /\ stack' = Replace([f |-> "assign_val", id |-> Top.id, idxv |-> ctl.v])
    /\ UNCHANGED <<inputs, program, scopes, exec_result, io>>

\* Stmt::ListItemAssignment binding the name to a new list when the chain
\* has no List of that name
ListItemAssignment_insert_Rebinds(chain, id, idxv, val) ==
    CASE idxv.t = "Int" ->
             IF idxv.i >= 0 /\ insert_list_item(chain, id, idxv.i, val).sc = chain
             THEN [p |-> FALSE,
                   sc |-> insert_var(chain, id, VList(ListSet(<< >>, idxv.i, val)))]
             ELSE insert_list_item(chain, id, idxv.i, val)
      [] idxv.t = "Str" ->
             [p |-> FALSE, sc |-> insert_dict_item(chain, id, idxv.s, val)]
      [] OTHER -> [p |-> FALSE, sc |-> chain]

\* match idx { Int(x) => insert_list_item, Str(x) => insert_dict_item, _ => {} }
ListItemAssignment_insert(chain, id, idxv, val) ==
    CASE idxv.t = "Int" -> insert_list_item(chain, id, idxv.i, val)
      [] idxv.t = "Str" ->
             [p |-> FALSE, sc |-> insert_dict_item(chain, id, idxv.s, val)]
      [] OTHER -> [p |-> FALSE, sc |-> chain]

Stmt_ListItemAssignment_insert ==
    /\ ValFor("assign_val")
    /\ LET res == ListItemAssignment_insert(scopes, Top.id, Top.idxv, ctl.v)
       IN IF res.p
          THEN ctl' = CPanic /\ UNCHANGED <<scopes, stack>>
          ELSE scopes' = res.sc /\ ctl' = CRes(RNone) /\ stack' = Pop
    /\ UNCHANGED <<inputs, program, exec_result, io>>

\* Stmt::Loop handing the Break on to the statement sequence around it
Loop_match_BreakPassedOn(res) ==
    IF res.x = "Break" THEN SomeRes(RBreak) ELSE None

\* The loop arm: the ExecResult the loop returns for a body result, or None
\* to run the body again.
Loop_match(res) == IF res.x = "Break" THEN SomeRes(RNone) ELSE None

Stmt_Loop ==
    /\ AtStmt("Loop")
    /\ ctl' = CBlock(ctl.stm.stmts)
    /\ stack' = Push([f |-> "loop", stmts |-> ctl.stm.stmts])
    /\ UNCHANGED <<inputs, program, scopes, exec_result, io>>

Stmt_Loop_next ==
    /\ ResFor("loop")
    /\ LET ret == Loop_match(ctl.r)
       IN IF ret.o = "Some"
          THEN ctl' = CRes(ret.r) /\ stack' = Pop
          ELSE ctl' = CBlock(Top.stmts) /\ stack' = stack
    /\ UNCHANGED <<inputs, program, scopes, exec_result, io>>

Stmt_Return ==
    /\ AtStmt("Return")
    /\ ctl' = CExpr(ctl.stm.expr)
    /\ stack' = Push([f |-> "return"])
    /\ UNCHANGED <<inputs, program, scopes, exec_result, io>>

Stmt_Return_done ==
    /\ ValFor("return")
    /\ ctl' = CRes(RReturn(ctl.v))
    /\ stack' = Pop
    /\ UNCHANGED <<inputs, program, scopes, exec_result, io>>


(***************************************************************************)
(* Native functions.  runtime.rs: NFPrint, NFPrintLn (built without the    *)
(* no_std feature); lib.rs tests: TestPrint, TestPrintLn, TestFunc.  A     *)
(* write to stdout is a record: the Display or Debug rendering of a Value, *)
(* or a newline.                                                           *)
(***************************************************************************)
WDisplay(val) == [w |-> "Display", v |-> val]
WDebug(val) == [w |-> "Debug", v |-> val]
WNewline == [w |-> "Newline"]

RECURSIVE NFPrint_writes(_)
NFPrint_writes(args) ==
    IF args = << >> THEN << >>
    ELSE <<IF Head(args).t \in {"Int", "Real", "Str"}
           THEN WDisplay(Head(args)) ELSE WDebug(Head(args))>>
         \o NFPrint_writes(Tail(args))

RECURSIVE NFPrintLn_args(_)
NFPrintLn_args(args) ==
    IF args = << >> THEN << >>
    ELSE (IF Head(args).t \in {"Int", "Real", "Str"}
          THEN <<WDisplay(Head(args))>>
          ELSE <<WDebug(Head(args)), WNewline>>)
         \o NFPrintLn_args(Tail(args))

NFPrintLn_writes(args) == NFPrintLn_args(args) \o <<WNewline>>

NativeFunction_execute(nf, args) ==
    CASE nf = "NFPrint" ->
             [p |-> FALSE, v |-> VNone, out |-> NFPrint_writes(args)]
      [] nf = "NFPrintLn" ->
             [p |-> FALSE, v |-> VNone, out |-> NFPrintLn_writes(args)]
      [] nf = "TestFunc" ->
             IF args = << >> THEN [p |-> TRUE, v |-> VNone, out |-> << >>]
             ELSE [p |-> FALSE, out |-> << >>,
                   v |-> IF args[1].t = "Int" THEN VInt(args[1].i + 40)
                         ELSE VNone]
      [] OTHER -> [p |-> FALSE, v |-> VNone, out |-> << >>]

insert_native_functions(scope) ==
    [scope EXCEPT !.native_funcs =
        MapInsert(MapInsert(@, <<"p","r","i","n","t">>, "NFPrint"),
                  <<"p","r","i","n","t","l","n">>, "NFPrintLn")]

get_default_global_scope == insert_native_functions(Scope_new)

insert_test_functions(scope) ==
    [scope EXCEPT !.native_funcs =
        MapInsert(MapInsert(@, <<"p","r","i","n","t">>, "TestPrint"),
                  <<"p","r","i","n","t","l","n">>, "TestPrintLn")]

(***************************************************************************)
(* Function::execute (interpreter.rs), in two halves around the body.      *)
(***************************************************************************)
Function_execute_push(chain, fn, args) ==
    ScopeChain_push(chain, Scope_from_args(Zip(fn.arg_ids, args)))

Function_execute_result(res) == IF res.x = "Return" THEN res.v ELSE VNone

\* Function::execute without `scopes.pop()`
Function_execute_pop_Missing(chain) == chain

Function_execute_pop(chain) == ScopeChain_pop(chain)

(***************************************************************************)
(* impl Evaluatable for Expr (interpreter.rs)                              *)
(***************************************************************************)
CCall(fid, vals) == [m |-> "call", id |-> fid, acc |-> vals]

Literal(ex) ==
    CASE ex.e = "Bool" -> VBool(ex.b)
      [] ex.e = "Int" -> VInt(ex.i)
      [] ex.e = "None" -> VNone
      [] ex.e = "Real" -> VReal(ex.n, ex.d)
      [] ex.e = "Str" -> VStr(ex.s)

Expr_literal ==
    /\ ctl.m = "expr" /\ ctl.expr.e \in {"Bool", "Int", "None", "Real", "Str"}
    /\ ctl' = CVal(Literal(ctl.expr))
    /\ UNCHANGED <<inputs, program, scopes, stack, exec_result, io>>

Expr_Id_value(chain, id) ==
    LET var == resolve_var(chain, id)
    IN IF var.o = "Some" THEN var.v ELSE VNone

\* Expr::Id taking the value of any scope that binds the name, as a walk of
\* the scopes in no fixed order would
Expr_Id_AnyScope ==
    /\ AtExpr("Id")
    /\ \/ \E j \in 1..Len(scopes) :
             /\ ctl.expr.id \in DOMAIN scopes[j].vars
             /\ ctl' = CVal(scopes[j].vars[ctl.expr.id])
       \/ /\ resolve_var(scopes, ctl.expr.id) = None
          /\ ctl' = CVal(VNone)
    /\ UNCHANGED <<inputs, program, scopes, stack, exec_result, io>>

Expr_Id ==
    /\ AtExpr("Id")
    /\ ctl' = CVal(Expr_Id_value(scopes, ctl.expr.id))
    /\ UNCHANGED <<inputs, program, scopes, stack, exec_result, io>>

Expr_BinOp ==
    /\ AtExpr("BinOp")
    /\ ctl' = CExpr(ctl.expr.lhs)
    /\ stack' = Push([f |-> "binop_l", opc |-> ctl.expr.opc, rhs |-> ctl.expr.rhs])
    /\ UNCHANGED <<inputs, program, scopes, exec_result, io>>

\* Expr::BinOp with short-circuit && and ||: the right operand is skipped
\* when the left operand decides the result
Expr_BinOp_lhs_ShortCircuit ==
    /\ ValFor("binop_l")
    /\ IF \/ Top.opc = "LogicalAnd" /\ ctl.v = VBool(FALSE)
          \/ Top.opc = "LogicalOr" /\ ctl.v = VBool(TRUE)
       THEN ctl' = ctl /\ stack' = Pop
       ELSE /\ ctl' = CExpr(Top.rhs)
            /\ stack' = Replace([f |-> "binop_r", opc |-> Top.opc, lv |-> ctl.v])
    /\ UNCHANGED <<inputs, program, scopes, exec_result, io>>

Expr_BinOp_lhs ==
    /\ ValFor("binop_l")
    /\ ctl' = CExpr(Top.rhs)
    /\ stack' = Replace([f |-> "binop_r", opc |-> Top.opc, lv |-> ctl.v])
    /\ UNCHANGED <<inputs, program, scopes, exec_result, io>>

Expr_BinOp_rhs ==
    /\ ValFor("binop_r")
    /\ LET res == Opcode_eval(Top.opc, Top.lv, ctl.v)
       IN IF res = Panic
          THEN ctl' = CPanic /\ stack' = stack
          ELSE ctl' = CVal(res) /\ stack' = Pop
    /\ UNCHANGED <<inputs, program, scopes, exec_result, io>>

Expr_UnaryOp ==
    /\ AtExpr("UnaryOp")
    /\ ctl' = CExpr(ctl.expr.arg)
    /\ stack' = Push([f |-> "unary", opc |-> ctl.expr.opc])
    /\ UNCHANGED <<inputs, program, scopes, exec_result, io>>

Expr_UnaryOp_done ==
    /\ ValFor("unary")
    /\ ctl' = CVal(eval_unary(Top.opc, ctl.v))
    /\ stack' = Pop
    /\ UNCHANGED <<inputs, program, scopes, exec_result, io>>

Expr_List ==
    /\ AtExpr("List")
    /\ IF ctl.expr.exprs = << >>
       THEN ctl' = CVal(VList(<< >>)) /\ stack' = stack
       ELSE /\ ctl' = CExpr(ctl.expr.exprs[1])
            /\ stack' = Push([f |-> "list", exprs |-> ctl.expr.exprs, acc |-> << >>])
    /\ UNCHANGED <<inputs, program, scopes, exec_result, io>>

Expr_List_item ==
    /\ ValFor("list")
    /\ LET acc == Append(Top.acc, ctl.v)
       IN IF Len(acc) < Len(Top.exprs)
          THEN /\ ctl' = CExpr(Top.exprs[Len(acc) + 1])
               /\ stack' = Replace([Top EXCEPT !.acc = acc])
          ELSE ctl' = CVal(VList(acc)) /\ stack' = Pop
    /\ UNCHANGED <<inputs, program, scopes, exec_result, io>>

Expr_Dict ==
    /\ AtExpr("Dict")
    /\ IF ctl.expr.items = << >>
       THEN ctl' = CVal(VDict(EmptyMap)) /\ stack' = stack
       ELSE /\ ctl' = CExpr(ctl.expr.items[1].val)
            /\ stack' = Push([f |-> "dict", items |-> ctl.expr.items,
                              pc |-> 1, dm |-> EmptyMap])
    /\ UNCHANGED <<inputs, program, scopes, exec_result, io>>

Expr_Dict_item ==
    /\ ValFor("dict")
    /\ LET map == MapInsert(Top.dm, Top.items[Top.pc].key, ctl.v)
       IN IF Top.pc < Len(Top.items)
          THEN /\ ctl' = CExpr(Top.items[Top.pc + 1].val)
               /\ stack' = Replace([Top EXCEPT !.pc = @ + 1, !.dm = map])
          ELSE ctl' = CVal(VDict(map)) /\ stack' = Pop
    /\ UNCHANGED <<inputs, program, scopes, exec_result, io>>

Expr_FuncCall ==
    /\ AtExpr("FuncCall")
    /\ IF ctl.expr.args = << >>
       THEN ctl' = CCall(ctl.expr.id, << >>) /\ stack' = stack
       ELSE /\ ctl' = CExpr(ctl.expr.args[1])
            /\ stack' = Push([f |-> "call_args", id |-> ctl.expr.id,
                              args |-> ctl.expr.args, acc |-> << >>])
    /\ UNCHANGED <<inputs, program, scopes, exec_result, io>>

Expr_FuncCall_arg ==
    /\ ValFor("call_args")
    /\ LET acc == Append(Top.acc, ctl.v)
       IN IF Len(acc) < Len(Top.args)
          THEN /\ ctl' = CExpr(Top.args[Len(acc) + 1])
               /\ stack' = Replace([Top EXCEPT !.acc = acc])
          ELSE ctl' = CCall(Top.id, acc) /\ stack' = Pop
    /\ UNCHANGED <<inputs, program, scopes, exec_result, io>>

\* The lookup of a call with the native functions looked up first
FuncCall_target_NativeFirst(chain, id) ==
    LET sf == resolve_func(chain, id)
        nf == resolve_native_func(chain, id)
    IN IF nf.o = "Some" THEN [to |-> "native", nf |-> nf.nf]
       ELSE IF sf.o = "Some" THEN [to |-> "script", fn |-> sf.fn]
       ELSE [to |-> "none"]

\* match scopes.resolve_func(func_id) { Some(f) => ..., None => match
\* scopes.resolve_native_func(func_id) { Some(f) => ..., None => ... } }
FuncCall_target(chain, id) ==
    LET sf == resolve_func(chain, id)
        nf == resolve_native_func(chain, id)
    IN IF sf.o = "Some" THEN [to |-> "script", fn |-> sf.fn]
       ELSE IF nf.o = "Some" THEN [to |-> "native", nf |-> nf.nf]
       ELSE [to |-> "none"]

Expr_FuncCall_script ==
    /\ ctl.m = "call"
    /\ LET tgt == FuncCall_target(scopes, ctl.id)
       IN /\ tgt.to = "script"
          /\ Len(scopes) < MaxDepth
          /\ scopes' = Function_execute_push(scopes, tgt.fn, ctl.acc)
          /\ ctl' = CBlock(tgt.fn.stmts)
    /\ stack' = Push([f |-> "execute"])
    /\ UNCHANGED <<inputs, program, exec_result, io>>

Function_execute_return ==
    /\ ResFor("execute")
    /\ scopes' = Function_execute_pop(scopes)
    /\ ctl' = CVal(Function_execute_result(ctl.r))
    /\ stack' = Pop
    /\ UNCHANGED <<inputs, program, exec_result, io>>

Expr_FuncCall_native ==
    /\ ctl.m = "call"
    /\ Len(native_log) < MaxCalls
    /\ LET tgt == FuncCall_target(scopes, ctl.id)
       IN /\ tgt.to = "native"
          /\ LET res == NativeFunction_execute(tgt.nf, ctl.acc)
             IN /\ ctl' = IF res.p THEN CPanic ELSE CVal(res.v)
                /\ stdout' = stdout \o res.out
                /\ native_log' = Append(native_log, [nf |-> tgt.nf, vals |-> ctl.acc])
    /\ UNCHANGED <<inputs, program, scopes, stack, exec_result>>

\* The None arm of the native lookup replaced by an unwrap(): the call of
\* an unknown name panics
Expr_FuncCall_none_Unwrap ==
    /\ ctl.m = "call"
    /\ FuncCall_target(scopes, ctl.id).to = "none"
    /\ ctl' = CPanic
    /\ UNCHANGED <<inputs, program, scopes, stack, exec_result, io>>

Expr_FuncCall_none ==
    /\ ctl.m = "call"
    /\ FuncCall_target(scopes, ctl.id).to = "none"
    /\ ctl' = CVal(VNone)
    /\ UNCHANGED <<inputs, program, scopes, stack, exec_result, io>>

\* list.get(idx as usize): a negative idx is far past the end.
ListElement_value(chain, id, coll_idx) ==
    LET var == resolve_var(chain, id)
    IN IF var.o = "Some"
       THEN CASE coll_idx.t = "Int" ->
                     IF var.v.t = "List"
                     THEN IF 0 <= coll_idx.i /\ coll_idx.i < Len(var.v.l)
                          THEN var.v.l[coll_idx.i + 1] ELSE VNone
                     ELSE VNone
              [] coll_idx.t = "Str" ->
                     IF var.v.t = "Dict"
                     THEN IF coll_idx.s \in DOMAIN var.v.dm
                          THEN var.v.dm[coll_idx.s] ELSE VNone
                     ELSE VNone
              [] OTHER -> VNone
       ELSE VNone

Expr_ListElement ==
    /\ AtExpr("ListElement")
    /\ ctl' = CExpr(ctl.expr.idx)
    /\ stack' = Push([f |-> "list_elem", id |-> ctl.expr.id])
    /\ UNCHANGED <<inputs, program, scopes, exec_result, io>>

Expr_ListElement_done ==
    /\ ValFor("list_elem")
    /\ ctl' = CVal(ListElement_value(scopes, Top.id, ctl.v))
    /\ stack' = Pop
    /\ UNCHANGED <<inputs, program, scopes, exec_result, io>>


(***************************************************************************)
(* The programs the model runs: the scripts of the tests of lib.rs and     *)
(* scripts that exercise each statement and expression form.               *)
(***************************************************************************)
id_a == <<"a">>
id_b == <<"b">>
id_c == <<"c">>
id_d == <<"d">>
id_f == <<"f">>
id_g == <<"g">>
id_h == <<"h">>
id_n == <<"n">>
id_r == <<"r">>
id_x == <<"x">>
id_z == <<"z">>
id_res == <<"r","e","s">>
id_add == <<"a","d","d">>
id_test == <<"t","e","s","t">>
id_fact == <<"f","a","c","t">>
id_foo == <<"f","o","o">>
id_print == <<"p","r","i","n","t">>
id_println == <<"p","r","i","n","t","l","n">>
id_test_func == <<"t","e","s","t","_","f","u","n","c">>
str_test == <<"t","e","s","t">>
str_test2 == <<"t","e","s","t","2">>
str_d1 == <<"d","1">>
str_d2 == <<"d","2">>
str_d3 == <<"d","3">>

\* lib.rs tests::functions
\* fn add(a, b) { let c = a + b; return c; let c = 123; }; let res = add(1, 2 + 3);
ProgFunctions ==
    << SFnDef(id_add, <<id_a, id_b>>,
              << SLet(id_c, EBinOp(EId(id_a), "Add", EId(id_b))),
                 SReturn(EId(id_c)),
                 SLet(id_c, EInt(123)) >>),
       SLet(id_res, EFuncCall(id_add, <<EInt(1), EBinOp(EInt(2), "Add", EInt(3))>>)) >>

\* lib.rs tests::scope_inheritance, with a let of the outer name in the body
\* let a = 1; fn test(z) { let a = 5; return a + z; }; let b = test(2); let c = a;
ProgShadow ==
    << SLet(id_a, EInt(1)),
       SFnDef(id_test, <<id_z>>,
              << SLet(id_a, EInt(5)),
                 SReturn(EBinOp(EId(id_a), "Add", EId(id_z))) >>),
       SLet(id_b, EFuncCall(id_test, <<EInt(2)>>)),
       SLet(id_c, EId(id_a)) >>

\* let a = [1]; fn f() { let a = 5; a[0] = 2; return a; }; let b = f(); let c = a;
ProgShadowAssign ==
    << SLet(id_a, EList(<<EInt(1)>>)),
       SFnDef(id_f, << >>,
              << SLet(id_a, EInt(5)),
                 SListItemAssignment(id_a, EInt(0), EInt(2)),
                 SReturn(EId(id_a)) >>),
       SLet(id_b, EFuncCall(id_f, << >>)),
       SLet(id_c, EId(id_a)) >>

\* let a = 0; let n = 0;
\* loop { loop { break; let n = 99; }; let n = n + 1; let a = a + 1;
\*        if a > 1 { break; }; };
ProgNestedLoops ==
    << SLet(id_a, EInt(0)),
       SLet(id_n, EInt(0)),
       SLoop(<< SLoop(<< SBreak, SLet(id_n, EInt(99)) >>),
                SLet(id_n, EBinOp(EId(id_n), "Add", EInt(1))),
                SLet(id_a, EBinOp(EId(id_a), "Add", EInt(1))),
                SIf(EBinOp(EId(id_a), "GreaterThan", EInt(1)), <<SBreak>>) >>) >>

\* fn f() { loop { return 1; }; }; let r = f(); let b = 2;
ProgReturnInLoop ==
    << SFnDef(id_f, << >>, << SLoop(<< SReturn(EInt(1)) >>) >>),
       SLet(id_r, EFuncCall(id_f, << >>)),
       SLet(id_b, EInt(2)) >>

\* fn g(x) { if x > 0 { return 1; } else { if x < 0 { return 2; }; }; return 3; };
\* let a = g(1); let b = g(-1); let c = g(0);
ProgReturnInIf ==
    << SFnDef(id_g, <<id_x>>,
              << SIfElse(EBinOp(EId(id_x), "GreaterThan", EInt(0)),
                         << SReturn(EInt(1)) >>,
                         << SIf(EBinOp(EId(id_x), "LessThan", EInt(0)),
                                << SReturn(EInt(2)) >>) >>),
                 SReturn(EInt(3)) >>),
       SLet(id_a, EFuncCall(id_g, <<EInt(1)>>)),
       SLet(id_b, EFuncCall(id_g, <<EInt(-1)>>)),
       SLet(id_c, EFuncCall(id_g, <<EInt(0)>>)) >>

\* fn h() { break; return 1; }; let a = 0;
\* loop { let r = h(); let a = a + 1; if a > 1 { break; }; };
ProgBreakInFn ==
    << SFnDef(id_h, << >>, << SBreak, SReturn(EInt(1)) >>),
       SLet(id_a, EInt(0)),
       SLoop(<< SLet(id_r, EFuncCall(id_h, << >>)),
                SLet(id_a, EBinOp(EId(id_a), "Add", EInt(1))),
                SIf(EBinOp(EId(id_a), "GreaterThan", EInt(1)), <<SBreak>>) >>) >>

\* let a = x + 1; let r = foo(1); c[0] = 1; let d = !x; let b = 2;
ProgSoft ==
    << SLet(id_a, EBinOp(EId(id_x), "Add", EInt(1))),
       SLet(id_r, EFuncCall(id_foo, <<EInt(1)>>)),
       SListItemAssignment(id_c, EInt(0), EInt(1)),
       SLet(id_d, EUnaryOp("Not", EId(id_x))),
       SLet(id_b, EInt(2)) >>

\* let a = [1]; let b = 3; fn f(b) { a[0] = 2; let b = 4; }; f(5);
ProgOuterList ==
    << SLet(id_a, EList(<<EInt(1)>>)),
       SLet(id_b, EInt(3)),
       SFnDef(id_f, <<id_b>>,
              << SListItemAssignment(id_a, EInt(0), EInt(2)),
                 SLet(id_b, EInt(4)) >>),
       SExpr(EFuncCall(id_f, <<EInt(5)>>)) >>

\* let d = {"d1": 1}; fn f() { d["d2"] = 2; d["d1"] = 3; d[0] = 4; }; f();
ProgOuterDict ==
    << SLet(id_d, EDict(<< KeyVal(str_d1, EInt(1)) >>)),
       SFnDef(id_f, << >>,
              << SListItemAssignment(id_d, EStr(str_d2), EInt(2)),
                 SListItemAssignment(id_d, EStr(str_d1), EInt(3)),
                 SListItemAssignment(id_d, EInt(0), EInt(4)) >>),
       SExpr(EFuncCall(id_f, << >>)) >>

\* lib.rs tests::lists
\* let a = [1, "test", 2]; a[0] = 40 + 2; a[4] = "test2";
\* let b = a[0]; let c = a[3]; let d = a[4];
ProgLists ==
    << SLet(id_a, EList(<<EInt(1), EStr(str_test), EInt(2)>>)),
       SListItemAssignment(id_a, EInt(0), EBinOp(EInt(40), "Add", EInt(2))),
       SListItemAssignment(id_a, EInt(4), EStr(str_test2)),
       SLet(id_b, EListElement(id_a, EInt(0))),
       SLet(id_c, EListElement(id_a, EInt(3))),
       SLet(id_d, EListElement(id_a, EInt(4))) >>

\* lib.rs tests::dicts
\* let a = {"d1": 1 + 2, "d2": "test"}; let b = a["d1"];
\* a["d2"] = "test2"; a["d3"] = []; let c = {};
ProgDicts ==
    << SLet(id_a, EDict(<< KeyVal(str_d1, EBinOp(EInt(1), "Add", EInt(2))),
                           KeyVal(str_d2, EStr(str_test)) >>)),
       SLet(id_b, EListElement(id_a, EStr(str_d1))),
       SListItemAssignment(id_a, EStr(str_d2), EStr(str_test2)),
       SListItemAssignment(id_a, EStr(str_d3), EList(<< >>)),
       SLet(id_c, EDict(<< >>)) >>

\* lib.rs tests::lib_interpret (recursive factorial), called with 3
ProgFact ==
    << SFnDef(id_fact, <<id_n>>,
              << SIf(EBinOp(EId(id_n), "LessThanOrEqual", EInt(0)),
                     << SReturn(EInt(0)) >>),
                 SIfElse(EBinOp(EId(id_n), "Equal", EInt(1)),
                         << SReturn(EInt(1)) >>,
                         << SReturn(EBinOp(EId(id_n), "Mul",
                                EFuncCall(id_fact,
                                    <<EBinOp(EId(id_n), "Sub", EInt(1))>>))) >>) >>),
       SReturn(EFuncCall(id_fact, <<EInt(3)>>)) >>

\* lib.rs tests::operator_precedence
\* fn test(b) { return b; }; let a = 1 + 2 * 3 / 4 + test(42);
ProgPrecedence ==
    << SFnDef(id_test, <<id_b>>, << SReturn(EId(id_b)) >>),
       SLet(id_a, EBinOp(EInt(1), "Add",
                    EBinOp(EBinOp(EInt(2), "Mul", EBinOp(EInt(3), "Div", EInt(4))),
                           "Add", EFuncCall(id_test, <<EInt(42)>>)))) >>

\* print(1, "test", true); println(.5, null); let a = test_func(2); break;
ProgNative ==
    << SExpr(EFuncCall(id_print, <<EInt(1), EStr(str_test), EBool(TRUE)>>)),
       SExpr(EFuncCall(id_println, <<EReal(1, 2), ENone>>)),
       SLet(id_a, EFuncCall(id_test_func, <<EInt(2)>>)),
       SBreak >>

\* fn print(x) { return 5; }; let r = print(1); let a = test_func(1);
\* let b = println(2);
ProgScriptOverNative ==
    << SFnDef(id_print, <<id_x>>, <<SReturn(EInt(5))>>),
       SLet(id_r, EFuncCall(id_print, <<EInt(1)>>)),
       SLet(id_a, EFuncCall(id_test_func, <<EInt(1)>>)),
       SLet(id_b, EFuncCall(id_println, <<EInt(2)>>)) >>

\* let a = 1; fn g() { return a; }; fn h(a) { return a; };
\* fn f(a) { return [g(), h()]; }; let r = f(2); let b = g(); let c = h();
ProgDynamic ==
    << SLet(id_a, EInt(1)),
       SFnDef(id_g, << >>, <<SReturn(EId(id_a))>>),
       SFnDef(id_h, <<id_a>>, <<SReturn(EId(id_a))>>),
       SFnDef(id_f, <<id_a>>,
              <<SReturn(EList(<<EFuncCall(id_g, << >>), EFuncCall(id_h, << >>)>>))>>),
       SLet(id_r, EFuncCall(id_f, <<EInt(2)>>)),
       SLet(id_b, EFuncCall(id_g, << >>)),
       SLet(id_c, EFuncCall(id_h, << >>)) >>

\* let a = 5 % 2; let b = 1 % 0; let c = 1;
ProgModZero ==
    << SLet(id_a, EBinOp(EInt(5), "Mod", EInt(2))),
       SLet(id_b, EBinOp(EInt(1), "Mod", EInt(0))),
       SLet(id_c, EInt(1)) >>

\* let a = [1]; let b = a[-1]; a[-1] = 2; let c = 1;
ProgNegIndex ==
    << SLet(id_a, EList(<<EInt(1)>>)),
       SLet(id_b, EListElement(id_a, EInt(-1))),
       SListItemAssignment(id_a, EInt(-1), EInt(2)),
       SLet(id_c, EInt(1)) >>

\* let a = 5; a[0] = 2; a["d1"] = 3; a[true] = 4; let b = a;
ProgScalarAssign ==
    << SLet(id_a, EInt(5)),
       SListItemAssignment(id_a, EInt(0), EInt(2)),
       SListItemAssignment(id_a, EStr(str_d1), EInt(3)),
       SListItemAssignment(id_a, EBool(TRUE), EInt(4)),
       SLet(id_b, EId(id_a)) >>

\* fn f(n, v) { print(n); return v; };
\* let r = f(1, false) && f(2, true); let b = f(3, true) || f(4, false);
ProgOperandOrder ==
    << SFnDef(id_f, <<id_n, id_z>>,
              << SExpr(EFuncCall(id_print, <<EId(id_n)>>)),
                 SReturn(EId(id_z)) >>),
       SLet(id_r, EBinOp(EFuncCall(id_f, <<EInt(1), EBool(FALSE)>>), "LogicalAnd",
                         EFuncCall(id_f, <<EInt(2), EBool(TRUE)>>))),
       SLet(id_b, EBinOp(EFuncCall(id_f, <<EInt(3), EBool(TRUE)>>), "LogicalOr",
                         EFuncCall(id_f, <<EInt(4), EBool(FALSE)>>))) >>

\* let a = [0]; let n = 1; fn f(n, z) { print(n); return z; };
\* fn h(n, z) { print(n); return z; };
\* let r = h(f(1, 2), f(3, n)); a[f(4, 1)] = f(5, 6);
ProgArgumentOrder ==
    << SLet(id_a, EList(<<EInt(0)>>)),
       SLet(id_n, EInt(1)),
       SFnDef(id_f, <<id_n, id_z>>,
              << SExpr(EFuncCall(id_print, <<EId(id_n)>>)),
                 SReturn(EId(id_z)) >>),
       SFnDef(id_h, <<id_n, id_z>>,
              << SExpr(EFuncCall(id_print, <<EId(id_n)>>)),
                 SReturn(EId(id_z)) >>),
       SLet(id_r, EFuncCall(id_h, << EFuncCall(id_f, <<EInt(1), EInt(2)>>),
                                     EFuncCall(id_f, <<EInt(3), EId(id_n)>>) >>)),
       SListItemAssignment(id_a, EFuncCall(id_f, <<EInt(4), EInt(1)>>),
                                 EFuncCall(id_f, <<EInt(5), EInt(6)>>)) >>

\* let a = [1]; let b = a; b[0] = 2;
\* fn f(c) { c[0] = 9; return c; }; let d = f(a);
\* let g = {"d1": 1}; let h = g; h["d1"] = 5;
ProgCopy ==
    << SLet(id_a, EList(<<EInt(1)>>)),
       SLet(id_b, EId(id_a)),
       SListItemAssignment(id_b, EInt(0), EInt(2)),
       SFnDef(id_f, <<id_c>>,
              << SListItemAssignment(id_c, EInt(0), EInt(9)),
                 SReturn(EId(id_c)) >>),
       SLet(id_d, EFuncCall(id_f, <<EId(id_a)>>)),
       SLet(id_g, EDict(<<KeyVal(str_d1, EInt(1))>>)),
       SLet(id_h, EId(id_g)),
       SListItemAssignment(id_h, EStr(str_d1), EInt(5)) >>

\* let a = 0; loop { let a = a + 1; if a > 2 { let b = a; break; }; };
\* fn f(n) { if n > 0 { let z = n; } else { let z = 0 - 1; }; return z; };
\* let r = f(5);
ProgBodyLets ==
    << SLet(id_a, EInt(0)),
       SLoop(<< SLet(id_a, EBinOp(EId(id_a), "Add", EInt(1))),
                SIf(EBinOp(EId(id_a), "GreaterThan", EInt(2)),
                    <<SLet(id_b, EId(id_a)), SBreak>>) >>),
       SFnDef(id_f, <<id_n>>,
              << SIfElse(EBinOp(EId(id_n), "GreaterThan", EInt(0)),
                         <<SLet(id_z, EId(id_n))>>,
                         <<SLet(id_z, EBinOp(EInt(0), "Sub", EInt(1)))>>),
                 SReturn(EId(id_z)) >>),
       SLet(id_r, EFuncCall(id_f, <<EInt(5)>>)) >>

\* let a = {"d1": 1, "d2": 2}; a["d2"] = 5; a["d3"] = 6;
\* let b = a["d2"]; let c = a["d1"]; let d = a["d3"];
\* let g = [1]; g[2] = 7; let h = g[2];
ProgReadAfterWrite ==
    << SLet(id_a, EDict(<< KeyVal(str_d1, EInt(1)), KeyVal(str_d2, EInt(2)) >>)),
       SListItemAssignment(id_a, EStr(str_d2), EInt(5)),
       SListItemAssignment(id_a, EStr(str_d3), EInt(6)),
       SLet(id_b, EListElement(id_a, EStr(str_d2))),
       SLet(id_c, EListElement(id_a, EStr(str_d1))),
       SLet(id_d, EListElement(id_a, EStr(str_d3))),
       SLet(id_g, EList(<<EInt(1)>>)),
       SListItemAssignment(id_g, EInt(2), EInt(7)),
       SLet(id_h, EListElement(id_g, EInt(2))) >>

Programs ==
    << ProgFunctions, ProgShadow, ProgShadowAssign, ProgNestedLoops,
       ProgReturnInLoop, ProgReturnInIf, ProgBreakInFn, ProgSoft,
       ProgOuterList, ProgOuterDict, ProgLists, ProgDicts, ProgFact,
       ProgPrecedence, ProgNative, ProgModZero, ProgNegIndex, << >>,
       ProgScriptOverNative, ProgDynamic, ProgScalarAssign,
       ProgOperandOrder, ProgArgumentOrder, ProgCopy, ProgBodyLets,
       ProgReadAfterWrite >>

\* One binary operation on two literal operands: `let r = <lhs> <opc> <rhs>`
OperandExprs ==
    << EInt(0), EInt(3), EInt(-2), EReal(1, 2), EReal(-3, 2), EReal(0, 1),
       EBool(TRUE), EStr(str_test), ENone, EList(<< >>), EDict(<< >>),
       EBool(FALSE), EStr(str_test2) >>

BinaryOpcodes ==
    << "Add", "Sub", "Mul", "Div", "Mod", "Equal", "NotEqual", "LessThan",
       "GreaterThan", "LessThanOrEqual", "GreaterThanOrEqual", "LogicalAnd",
       "LogicalOr", "LogicalXor" >>

ProgBinOp(l, opc, r) ==
    << SLet(id_r, EBinOp(OperandExprs[l], BinaryOpcodes[opc], OperandExprs[r])) >>

ProgUnaryOp(x) == << SLet(id_r, EUnaryOp("Not", OperandExprs[x])) >>

\* `let a = [10, .., 10 + n - 1]; a[i] = 7;`
ProgListAssign(n, i) ==
    << SLet(id_a, EList([k \in 1..n |-> EInt(9 + k)])),
       SListItemAssignment(id_a, EInt(i), EInt(7)) >>

\* `let z = 9; fn f(x, z) { return [x, z]; }; let r = f(11, .., 10 + a);`
ProgArity(a) ==
    << SLet(id_z, EInt(9)),
       SFnDef(id_f, <<id_x, id_z>>, <<SReturn(EList(<<EId(id_x), EId(id_z)>>))>>),
       SLet(id_r, EFuncCall(id_f, [k \in 1..a |-> EInt(10 + k)])) >>

\* `if X { let a = 1; return 1; }; let b = 2;`
ProgIf(x) ==
    << SIf(OperandExprs[x], <<SLet(id_a, EInt(1)), SReturn(EInt(1))>>),
       SLet(id_b, EInt(2)) >>

\* `if X { let a = 1; } else { let c = 3; break; }; let b = 2;`
ProgIfElse(x) ==
    << SIfElse(OperandExprs[x], <<SLet(id_a, EInt(1))>>,
               <<SLet(id_c, EInt(3)), SBreak>>),
       SLet(id_b, EInt(2)) >>

\* The root scopes a host supplies: the default global scope, the scope of
\* the tests (counting print functions, test_func), and a scope that
\* already binds variables.
GlobalScopes ==
    << get_default_global_scope,
       [insert_test_functions(Scope_new) EXCEPT !.native_funcs =
            MapInsert(@, id_test_func, "TestFunc")],
       [get_default_global_scope EXCEPT
            !.vars = MapInsert(MapInsert(EmptyMap, id_x, VInt(7)), id_c,
                               VList(<<VInt(0)>>)),
            !.native_funcs = MapInsert(@, id_test_func, "TestFunc")] >>

\* A chain a host builds by pushing a scope: a root scope that holds the
\* script function `fn test_func(n) { return n; }`, and on it a scope that
\* holds the native function test_func.
ScriptScope ==
    [Scope_new EXCEPT !.funcs =
        MapInsert(@, id_test_func, Function(<<id_n>>, <<SReturn(EId(id_n))>>))]

NativeScope ==
    [Scope_new EXCEPT !.native_funcs = MapInsert(@, id_test_func, "TestFunc")]

(***************************************************************************)
(* The source texts handed to interpret.                                   *)
(***************************************************************************)
Sources ==
    << <<"!", "&", "*">>,
       <<"l", "e", "t", " ", "a", " ", "=", " ", "1", ";", " ", ")">>,
       <<"p", "r", "i", "n", "t", "l", "n", "(", "\"", "x", "\"", ")", ";", " ", "l", "e", "t">>,
       <<"l", "e", "t", " ", "a", " ", "=", " ", "{", "}">>,
       <<>>,
       <<"l", "e", "t", " ", "a", " ", "=", " ", "1", ";", " ", "p", "r", "i", "n", "t", "(", "a", ")", ";", " ", "r", "e", "t", "u", "r", "n", " ", "a", " ", "+", " ", "2", " ", "*", " ", "3">>,
       <<"a", "[", "0", "]", " ", "=", " ", "1", ";", " ", "b", "r", "e", "a", "k">>,
       <<"f", "n", " ", "f", "(", "n", ")", " ", "{", " ", "i", "f", " ", "n", " ", ">", " ", "0", " ", "{", " ", "r", "e", "t", "u", "r", "n", " ", "n", ";", " ", "}", ";", " ", "}", ";", " ", "l", "e", "t", " ", "r", " ", "=", " ", "f", "(", "2", ")", " ", "=", "=", " ", "2", " ", "&", "&", " ", "!", "x", ";">>,
       <<"l", "e", "t", " ", "a", " ", "=", " ", "1", ";", " ", "f", "n", " ", "f", "(", "a", ")", " ", "{", " ", "r", "e", "t", "u", "r", "n", " ", "a", ";", " ", "}", ";", " ", "l", "e", "t", " ", "r", " ", "=", " ", "f", "(", "2", ")", ";", " ", "p", "r", "i", "n", "t", "(", "r", ")", ";">> >>

\* Source texts for the parser: the texts of the fourteen binary operators
\* with the level (the binary expression parser) of each, from the lowest
\* to the highest
OperatorTexts ==
    << [text |-> <<"+">>, opc |-> "Add", k |-> "sum_expr"],
       [text |-> <<"-">>, opc |-> "Sub", k |-> "sum_expr"],
       [text |-> <<"*">>, opc |-> "Mul", k |-> "product_expr"],
       [text |-> <<"/">>, opc |-> "Div", k |-> "product_expr"],
       [text |-> <<"%">>, opc |-> "Mod", k |-> "product_expr"],
       [text |-> <<"=", "=">>, opc |-> "Equal", k |-> "relational_expr"],
       [text |-> <<"!", "=">>, opc |-> "NotEqual", k |-> "relational_expr"],
       [text |-> <<"<">>, opc |-> "LessThan", k |-> "relational_expr"],
       [text |-> <<"<", "=">>, opc |-> "LessThanOrEqual", k |-> "relational_expr"],
       [text |-> <<">">>, opc |-> "GreaterThan", k |-> "relational_expr"],
       [text |-> <<">", "=">>, opc |-> "GreaterThanOrEqual", k |-> "relational_expr"],
       [text |-> <<"&", "&">>, opc |-> "LogicalAnd", k |-> "logical_expr"],
       [text |-> <<"|", "|">>, opc |-> "LogicalOr", k |-> "logical_expr"],
       [text |-> <<"^">>, opc |-> "LogicalXor", k |-> "logical_expr"] >>

\* `a <op1> b <op2> c`, with the operators set off by `gap`
TwoOperatorSource(op1, op2, gap) ==
    id_a \o gap \o OperatorTexts[op1].text \o gap \o id_b
         \o gap \o OperatorTexts[op2].text \o gap \o id_c

Gaps == << << >>, <<" ">> >>

\* `!a <op> b`, with the operator set off by `gap`
NotOperatorSource(op, gap) ==
    <<"!">> \o id_a \o gap \o OperatorTexts[op].text \o gap \o id_b

EqXorEqSource == <<"a", " ", "=", "=", " ", "b", " ", "^", " ", "c", " ", "=", "=", " ", "d">>

\* Pieces of program text, and the texts made of at most MaxPieces of them
Pieces ==
    << <<"l", "e", "t", " ", "a", " ", "=", " ", "1">>, <<";">>, <<")">>, <<"!", "&", "*">>, <<"f", "(", "1", ")">>, <<" ">>, <<"b", "r", "e", "a", "k">>, <<"{", " ", "a", " ", "}">> >>

RECURSIVE PieceTexts(_)
PieceTexts(n) ==
    IF n = 0 THEN {<< >>}
    ELSE PieceTexts(n - 1)
         \cup {t \o Pieces[j] : t \in PieceTexts(n - 1), j \in 1..Len(Pieces)}

ParseSources ==
    PieceTexts(MaxPieces)
    \cup {TwoOperatorSource(op1, op2, Gaps[g]) :
             op1 \in 1..Len(OperatorTexts), op2 \in 1..Len(OperatorTexts),
             g \in 1..Len(Gaps)}
    \cup {NotOperatorSource(op, Gaps[g]) :
             op \in 1..Len(OperatorTexts), g \in 1..Len(Gaps)}
    \cup {EqXorEqSource}

(***************************************************************************)
(* The entry points.                                                       *)
(***************************************************************************)
\* The host holds a parsed block and a chain made of its root scope (or of
\* ScriptScope and, pushed on it, NativeScope) and
\* calls exec (the tests of lib.rs), or it holds a source text and a root
\* scope and calls interpret, or it holds a source text and calls parse of
\* parser.rs.
Init ==
    /\ \/ /\ entry \in {"exec", "interpret"}
          /\ \E j \in 1..Len(GlobalScopes) : global_scope = GlobalScopes[j]
       \/ /\ entry = "exec"
          /\ global_scope = ScriptScope
       \/ /\ entry = "parse"
          /\ global_scope = Scope_new
    /\ \/ /\ entry = "exec"
          /\ source = << >>
          /\ \/ \E j \in 1..Len(Programs) : program = Programs[j]
             \/ /\ global_scope = get_default_global_scope
                /\ \E l, r \in 1..Len(OperandExprs),
                      opc \in 1..Len(BinaryOpcodes) :
                        program = ProgBinOp(l, opc, r)
             \/ /\ global_scope = get_default_global_scope
                /\ \E x \in 1..Len(OperandExprs) :
                        program \in {ProgUnaryOp(x), ProgIf(x), ProgIfElse(x)}
             \/ /\ global_scope = get_default_global_scope
                /\ \E n \in 0..MaxListLen, i \in 0..MaxIndex :
                        program = ProgListAssign(n, i)
             \/ \E a \in 0..MaxArgs : program = ProgArity(a)
          /\ IF global_scope = ScriptScope
             THEN host_chain = ScopeChain_push(
                                   ScopeChain_from_scope(global_scope), NativeScope)
             ELSE host_chain = ScopeChain_from_scope(global_scope)
          /\ scopes = host_chain
       \/ /\ entry = "interpret"
          /\ \E j \in 1..Len(Sources) : source = Sources[j]
          /\ program = << >>
          /\ host_chain = ScopeChain_from_scope(global_scope)
          /\ scopes = << >>
       \/ /\ entry = "parse"
          /\ source \in ParseSources
          /\ program = << >>
          /\ host_chain = << >>
          /\ scopes = << >>
    /\ parsed = Pending
    /\ ctl = CStart
    /\ stack = << >>
    /\ exec_result = RPending
    /\ stdout = << >>
    /\ native_log = << >>
    /\ first_run = None

\* block.exec(&mut scopes), as the tests of lib.rs call it
Exec_call ==
    /\ entry = "exec" /\ ctl = CStart
    /\ ctl' = CBlock(program)
    /\ UNCHANGED <<inputs, program, scopes, stack, exec_result, io>>

\* lib.rs interpret, up to the call of exec or the Err arm
Interpret_call ==
    /\ entry = "interpret" /\ ctl = CStart
    /\ scopes' = ScopeChain_from_scope(global_scope)
    /\ parsed' = ProgramParser_parse(source)
    /\ IF parsed'.o = "Ok"
       THEN /\ program' = parsed'.stmts
            /\ ctl' = CBlock(parsed'.stmts)
            /\ exec_result' = exec_result
       ELSE /\ program' = program
            /\ ctl' = CDone
            /\ exec_result' = RError("Unable to parse program source")
    /\ UNCHANGED <<entry, source, global_scope, host_chain, stack, io,
                   first_run>>

\* The host, holding the InterpretResult of a call of interpret, calls
\* interpret again on the same source and an equal root scope.
Interpret_again ==
    /\ entry = "interpret" /\ ctl = CDone /\ first_run = None
    /\ first_run' = [o |-> "Run", r |-> exec_result, sc |-> scopes,
                     log |-> native_log]
    /\ parsed' = Pending
    /\ program' = << >>
    /\ scopes' = << >>
    /\ ctl' = CStart
    /\ exec_result' = RPending
    /\ stdout' = << >>
    /\ native_log' = << >>
    /\ UNCHANGED <<entry, source, global_scope, host_chain, stack>>

\* parser.rs parse
Parse_call ==
    /\ entry = "parse" /\ parsed = Pending
    /\ parsed' = parse(source)
    /\ UNCHANGED <<entry, source, global_scope, host_chain, program, scopes,
                   ctl, stack, exec_result, io, first_run>>

\* The outermost exec returns to the host (to interpret, which stores the
\* result in InterpretResult.exec_result).
Exec_return ==
    /\ ctl.m = "res" /\ stack = << >>
    /\ exec_result' = ctl.r
    /\ ctl' = CDone
    /\ UNCHANGED <<inputs, program, scopes, stack, io>>

Next ==
    \/ Exec_call \/ Interpret_call \/ Interpret_again \/ Parse_call
    \/ Exec_return
    \/ StmtBlock_exec \/ StmtBlock_next
    \/ Stmt_Break \/ Stmt_Expr \/ Stmt_Expr_done \/ Stmt_FnDef
    \/ Stmt_If \/ Stmt_If_cond \/ Stmt_IfElse \/ Stmt_IfElse_cond
    \/ Stmt_Let \/ Stmt_Let_insert
    \/ Stmt_ListItemAssignment \/ Stmt_ListItemAssignment_idx
    \/ Stmt_ListItemAssignment_insert
    \/ Stmt_Loop \/ Stmt_Loop_next \/ Stmt_Return \/ Stmt_Return_done
    \/ Expr_literal \/ Expr_Id
    \/ Expr_BinOp \/ Expr_BinOp_lhs \/ Expr_BinOp_rhs
    \/ Expr_UnaryOp \/ Expr_UnaryOp_done
    \/ Expr_List \/ Expr_List_item \/ Expr_Dict \/ Expr_Dict_item
    \/ Expr_FuncCall \/ Expr_FuncCall_arg \/ Expr_FuncCall_script
    \/ Expr_FuncCall_native \/ Expr_FuncCall_none \/ Function_execute_return
    \/ Expr_ListElement \/ Expr_ListElement_done

Spec == Init /\ [][Next]_vars

(***************************************************************************)
(* Properties.                                                             *)
(***************************************************************************)
\* The Function::execute calls in progress
Invocations(st) == Cardinality({j \in DOMAIN st : st[j].f = "execute"})

\* C1: every script-function invocation pushes exactly one scope before its
\* body runs and pops exactly one scope as it hands its result to the
\* caller, whether the body ended normally, by Return or by Break; so the
\* chain always holds the scopes it started with plus one per invocation in
\* progress, a statement block leaves the number of scopes as it found it,
\* and the run ends with the scopes the host supplied (one for interpret).
C1_ScopeDiscipline ==
    [][/\ (ctl.m = "call" /\ ctl'.m = "block") =>
              /\ Len(scopes') = Len(scopes) + 1
              /\ Invocations(stack') = Invocations(stack) + 1
       /\ ResFor("execute") =>
              /\ ctl.r.x \in {"None", "Return", "Break"}
              /\ ctl'.m = "val"
              /\ Len(scopes') = Len(scopes) - 1
              /\ Invocations(stack') = Invocations(stack) - 1
       /\ (~(ctl.m = "call" /\ ctl'.m = "block") /\ ~ResFor("execute")
             /\ ctl.m # "start" /\ ctl'.m # "start") =>
              Len(scopes') = Len(scopes)
       /\ scopes' # << >> =>
              Len(scopes') = Len(host_chain) + Invocations(stack')
       /\ (ctl'.m = "done" /\ entry = "interpret") => Len(scopes') = 1
       /\ (ctl'.m = "done" /\ entry = "exec") =>
              Len(scopes') = Len(host_chain)]_vars

\* An invocation whose body ended by Break has returned and the run is over
\* with the root scope alone on the chain.
C1_Witness ==
    /\ program = ProgBreakInFn /\ ctl.m = "done"
    /\ Len(scopes) = 1 /\ native_log = << >>
    /\ resolve_var(scopes, id_r) = Some(VNone)

\* C2: a Return executed inside a function body, directly or nested in If,
\* IfElse or Loop blocks, ends the body: once a statement of the body has
\* yielded Return(v), every enclosing statement and block of the invocation
\* passes that result on unchanged, no further statement is executed, and
\* the invocation hands v to its caller.
C2_ReturnEndsInvocation ==
    [][(ctl.m = "res" /\ ctl.r.x = "Return" /\ Invocations(stack) > 0) =>
           IF TopIs("execute") THEN ctl' = CVal(ctl.r.v) ELSE ctl' = ctl]_vars

\* The Loop statements in progress
Loops(st) == Cardinality({j \in DOMAIN st : st[j].f = "loop"})

\* C3: a Break that reaches a Loop ends that Loop alone: the Loop yields
\* ExecResult::None to the statement sequence it stands in, the loops
\* around it stay in progress, and the sequence goes on with the statement
\* after the Loop.  In the nested loops of ProgNestedLoops the inner loop is
\* left at its Break in each of the two rounds of the outer loop and the
\* statements after it run: a and n are 2 at the end.
C3_BreakEndsInnermostLoop ==
    [][/\ (ResFor("loop") /\ ctl.r.x = "Break") =>
              /\ ctl' = CRes(RNone)
              /\ stack' = Pop
              /\ Loops(stack') = Loops(stack) - 1
       /\ (ResFor("block") /\ ctl.r.x = "None" /\ Top.pc < Len(Top.stmts)) =>
              /\ ctl' = CStmt(Top.stmts[Top.pc + 1])
              /\ Loops(stack') = Loops(stack)
       /\ (program = ProgNestedLoops /\ ctl'.m = "done") =>
              /\ resolve_var(scopes', id_a) = Some(VInt(2))
              /\ resolve_var(scopes', id_n) = Some(VInt(2))
              /\ exec_result' = RNone]_vars

\* The run of the nested loops is over: the Break of the inner loop was
\* executed in each round of the outer loop.
C3_Witness ==
    /\ program = ProgNestedLoops /\ ctl.m = "done"
    /\ resolve_var(scopes, id_a) = Some(VInt(2))
    /\ resolve_var(scopes, id_n) = Some(VInt(2))

\* The scopes of a chain that bind `key` in their table `tbl`, and the
\* greatest element of a set of numbers
Binders(chain, tbl, key) ==
    {j \in 1..Len(chain) : key \in DOMAIN chain[j][tbl]}
Greatest(S) == CHOOSE x \in S : \A y \in S : y <= x
Names(chain, tbl) == UNION {DOMAIN chain[j][tbl] : j \in 1..Len(chain)}

\* Each of the three resolve functions gives the binding of the innermost
\* scope that has the name, and None for a name no scope has.
ResolvesInnermost(chain) ==
    /\ \A key \in Names(chain, "vars") \cup {id_foo} :
          resolve_var(chain, key) =
              IF Binders(chain, "vars", key) = {} THEN None
              ELSE Some(chain[Greatest(Binders(chain, "vars", key))].vars[key])
    /\ \A key \in Names(chain, "funcs") \cup {id_foo} :
          resolve_func(chain, key) =
              IF Binders(chain, "funcs", key) = {} THEN None
              ELSE SomeFn(chain[Greatest(Binders(chain, "funcs", key))].funcs[key])
    /\ \A key \in Names(chain, "native_funcs") \cup {id_foo} :
          resolve_native_func(chain, key) =
              IF Binders(chain, "native_funcs", key) = {} THEN None
              ELSE SomeNative(chain[Greatest(Binders(chain, "native_funcs",
                                                      key))].native_funcs[key])

\* The step is the insert of an indexed assignment to `key` that lands in
\* scope j: the innermost scope whose variable `key` is a List (for an Int
\* index) or a Dict (for a Str index).
WritesThrough(j, key) ==
    /\ ValFor("assign_val") /\ Top.id = key
    /\ Top.idxv.t \in {"Int", "Str"}
    /\ LET kind == IF Top.idxv.t = "Int" THEN "List" ELSE "Dict"
           holders == {h \in Binders(scopes, "vars", key) :
                           scopes[h].vars[key].t = kind}
       IN holders # {} /\ j = Greatest(holders)

\* A binding that a scope above it shadows keeps its value in every step
\* for which `Excepted(j, key)` does not hold.
ShadowedBindingsKept(Excepted(_, _)) ==
    \A i \in 2..Len(scopes) : \A j \in 1..(i - 1) :
        \A key \in (DOMAIN scopes[i].vars) \cap (DOMAIN scopes[j].vars) :
            \/ Excepted(j, key)
            \/ /\ key \in DOMAIN scopes'[j].vars
               /\ scopes'[j].vars[key] = scopes[j].vars[key]

NoException(j, key) == FALSE

\* C4 as stated: a binding shadowed by a let in a function's scope keeps its
\* value until that scope pops, so that it is visible again with its
\* previous value.
C4_OuterBindingKeepsValue == [][ShadowedBindingsKept(NoException)]_vars

\* C4, amended: the resolve functions give the binding of the innermost
\* scope that has the name; a let binds in the top scope alone; a reference
\* evaluates to the innermost binding; the pop of a function's scope leaves
\* the scopes below as they are; and a shadowed binding keeps its value
\* while it is shadowed, except that an indexed assignment to the name
\* writes to it when it is the innermost binding of the name to a List (Int
\* index) or Dict (Str index).
C4_ShadowingAndRestoration ==
    [][/\ ResolvesInnermost(scopes')
       /\ AtExpr("Id") =>
              ctl' = CVal(IF Binders(scopes, "vars", ctl.expr.id) = {}
                          THEN VNone
                          ELSE scopes[Greatest(Binders(scopes, "vars",
                                   ctl.expr.id))].vars[ctl.expr.id])
       /\ ValFor("let") =>
              /\ Len(scopes') = Len(scopes)
              /\ \A j \in 1..(Len(scopes) - 1) : scopes'[j] = scopes[j]
              /\ scopes'[Len(scopes)].vars[Top.id] = ctl.v
       /\ ResFor("execute") =>
              scopes' = SubSeq(scopes, 1, Len(scopes) - 1)
       /\ ShadowedBindingsKept(WritesThrough)]_vars

\* The scope of test(2), whose let shadowed `a`, has popped: b is 5 + 2 and
\* c is the outer a, 1.
C4_Witness ==
    /\ program = ProgShadow /\ ctl.m = "done"
    /\ resolve_var(scopes, id_b) = Some(VInt(7))
    /\ resolve_var(scopes, id_c) = Some(VInt(1))
    /\ resolve_var(scopes, id_a) = Some(VInt(1))

\* Source texts that are no program of the grammar
BadSources == {Sources[1], Sources[2], Sources[3], Sources[4]}

\* C5: when the source handed to interpret does not parse, interpret returns
\* exec_result = Error("Unable to parse program source") and a chain that
\* holds the root scope it was given and nothing else; no statement has
\* been executed and no native function invoked.
C5_ParseFailure ==
    (entry = "interpret" /\ ctl.m # "start") =>
        /\ source \in BadSources => parsed.o = "Err"
        /\ parsed.o = "Err" =>
              /\ exec_result = RError("Unable to parse program source")
              /\ scopes = <<global_scope>>
              /\ ctl = CDone /\ stack = << >> /\ program = << >>
              /\ native_log = << >> /\ stdout = << >>

\* interpret has returned for `println("x"); let`, under a root scope that
\* binds variables and native functions.
C5_Witness ==
    /\ entry = "interpret" /\ source = Sources[3] /\ ctl.m = "done"
    /\ global_scope = GlobalScopes[3] /\ parsed.o = "Err"

\* The places of the text that program_parser leaves unparsed and that
\* hold something other than whitespace
UnparsedText(s) ==
    IF program_parser(s).ok
    THEN {j \in program_parser(s).at..Len(s) : s[j] \notin Whitespace}
    ELSE {}

\* C6: parse reports an error for every source text that is not, as a
\* whole, a program of the grammar: when the statements parsed from the
\* start of the text are followed by text that is not parsed, the result is
\* Err, not Ok with the rest dropped.
C6_RejectsUnparsedRemainder ==
    (entry = "parse" /\ parsed.o # "Pending" /\ UnparsedText(source) # {})
        => parsed.o = "Err"

\* C7: executing a block never yields ExecResult::Error (the only Error is
\* the one interpret returns for a source that does not parse); an
\* identifier that no scope binds evaluates to None and a call of a name
\* that is neither a script nor a native function evaluates to None, both
\* without touching the callers or the chain, so that the enclosing
\* statement completes and the statements after it run: ProgSoft ends with
\* r = None and b = 2, and with a = None when the host bound no x.
C7_RuntimeSoftening ==
    [][/\ ctl'.m = "res" => ctl'.r.x \in {"None", "Break", "Return"}
       /\ exec_result'.x = "Error" => (entry = "interpret" /\ parsed'.o = "Err")
       /\ (AtExpr("Id") /\ Binders(scopes, "vars", ctl.expr.id) = {}) =>
              (ctl' = CVal(VNone) /\ stack' = stack /\ scopes' = scopes)
       /\ (/\ ctl.m = "call"
           /\ Binders(scopes, "funcs", ctl.id) = {}
           /\ Binders(scopes, "native_funcs", ctl.id) = {}) =>
              (ctl' = CVal(VNone) /\ stack' = stack /\ scopes' = scopes)
       /\ (program = ProgSoft /\ ctl'.m = "done") =>
              /\ exec_result' = RNone
              /\ resolve_var(scopes', id_r) = Some(VNone)
              /\ resolve_var(scopes', id_b) = Some(VInt(2))
              /\ id_x \notin DOMAIN global_scope.vars =>
                     resolve_var(scopes', id_a) = Some(VNone)]_vars

\* ProgSoft has run to its end under the default root scope, which binds
\* neither x nor foo.
C7_Witness ==
    /\ program = ProgSoft /\ ctl.m = "done"
    /\ global_scope = get_default_global_scope
    /\ resolve_var(scopes, id_a) = Some(VNone)
    /\ resolve_var(scopes, id_r) = Some(VNone)
    /\ resolve_var(scopes, id_b) = Some(VInt(2))

Numeric(val) == val.t \in {"Int", "Real"}

\* C8: for + - *, two Int operands give an Int (their sum, difference or
\* product) and two numeric operands of which at least one is a Real give a
\* Real; / gives a Real for every two numeric operands, two Ints included;
\* and for each of the four an operand that is not a number makes the
\* result None.
C8_NumericWidening ==
    [][(ValFor("binop_r") /\ Top.opc \in {"Add", "Sub", "Mul", "Div"}) =>
           LET l == Top.lv
               r == ctl.v
           IN /\ ctl'.m = "val"
              /\ IF ~Numeric(l) \/ ~Numeric(r) THEN ctl'.v = VNone
                 ELSE IF Top.opc = "Div" THEN ctl'.v.t = "Real"
                 ELSE IF l.t = "Int" /\ r.t = "Int"
                      THEN ctl'.v = VInt(CASE Top.opc = "Add" -> l.i + r.i
                                           [] Top.opc = "Sub" -> l.i - r.i
                                           [] Top.opc = "Mul" -> l.i * r.i)
                      ELSE ctl'.v.t = "Real"]_vars

\* `let r = 3 / -2` has run: r is the Real -1.5.
C8_Witness ==
    /\ program = ProgBinOp(2, 4, 3) /\ ctl.m = "done"
    /\ resolve_var(scopes, id_r) = Some([t |-> "Real", n |-> -3, d |-> 2])

\* C9 as stated: while a function's scope is on top, no step changes the
\* value bound to a variable in a scope below the top scope.
C9_NoOuterUpdate ==
    [][\A j \in 1..(Len(scopes) - 1) :
           scopes'[j].vars = scopes[j].vars]_vars

\* C9, amended: while a function's scope is on top, the only step that
\* changes a variable of a scope below the top scope is the insert of an
\* indexed assignment, and it changes one variable: the List (for an Int
\* index) or Dict (for a Str index) bound to the assigned name in the
\* innermost scope that binds the name to such a collection, which gets the
\* assigned value at the index and keeps its other items.  Let and FnDef
\* write to the top scope alone.
C9_OnlyIndexedAssignmentWritesBelow ==
    [][\A j \in 1..(Len(scopes) - 1) :
           /\ scopes'[j].funcs = scopes[j].funcs
           /\ DOMAIN scopes'[j].vars = DOMAIN scopes[j].vars
           /\ \A key \in DOMAIN scopes[j].vars :
                 LET old == scopes[j].vars[key]
                     new == scopes'[j].vars[key]
                 IN IF WritesThrough(j, key) /\ ctl'.m # "panic"
                    THEN IF Top.idxv.t = "Int"
                         THEN /\ new.t = "List"
                              /\ new.l[Top.idxv.i + 1] = ctl.v
                              /\ \A n \in 1..Len(old.l) :
                                     n # Top.idxv.i + 1 => new.l[n] = old.l[n]
                         ELSE /\ new.t = "Dict"
                              /\ new.dm[Top.idxv.s] = ctl.v
                              /\ \A n \in DOMAIN old.dm :
                                     n # Top.idxv.s => new.dm[n] = old.dm[n]
                    ELSE new = old]_vars

\* f(5) has run `a[0] = 2; let b = 4` with its scope on top: the outer list
\* a holds 2 and the outer b is still 3.
C9_Witness ==
    /\ program = ProgOuterList /\ ctl.m = "done"
    /\ resolve_var(scopes, id_a) = Some(VList(<<VInt(2)>>))
    /\ resolve_var(scopes, id_b) = Some(VInt(3))

\* The levels of the operators, from the loosest (1) to the tightest (4)
Tightness(opc) ==
    CASE opc \in {"Add", "Sub"} -> 1
      [] opc \in {"Mul", "Div", "Mod"} -> 2
      [] opc \in RelationalOps -> 3
      [] opc \in LogicalOps -> 4

C11_LeftAssociative ==
    (entry = "parse" /\ parsed.o # "Pending") =>
        \A op1, op2 \in 1..Len(OperatorTexts) : \A g \in 1..Len(Gaps) :
            LET o1 == OperatorTexts[op1].opc
                o2 == OperatorTexts[op2].opc
            IN (/\ source = TwoOperatorSource(op1, op2, Gaps[g])
                /\ Tightness(o1) = Tightness(o2)) =>
                   parsed = Ok(<<SExpr(
                       EBinOp(EBinOp(EId(id_a), o1, EId(id_b)), o2, EId(id_c)))>>)

\* C12: the parser of parser.rs builds `!a <op> b`, for every binary
\* operator op, as BinOp(UnaryOp(Not, a), op, b): the prefix `!` binds
\* tighter than every binary operator.
C12_NotBindsTightest ==
    (entry = "parse" /\ parsed.o # "Pending") =>
        \A op \in 1..Len(OperatorTexts) : \A g \in 1..Len(Gaps) :
            source = NotOperatorSource(op, Gaps[g]) =>
                parsed = Ok(<<SExpr(
                    EBinOp(EUnaryOp("Not", EId(id_a)), OperatorTexts[op].opc,
                           EId(id_b)))>>)

\* The operand pairs over which the relational operators are defined
RelationalDomain(l, r) ==
    \/ Numeric(l) /\ Numeric(r)
    \/ l.t = "Str" /\ r.t = "Str"

\* C13: a relational operator gives a Bool for two numbers (Int or Real, in
\* any mix) and for two Strs, and None, never Bool(false), for every other
\* pair of operands (two Bools, two Nones and two Lists included); && || ^
\* give a Bool for two Bools alone, their conjunction, their disjunction and
\* (a || b) && !(a && b), and None for every other pair.
C13_OperatorDomains ==
    [][(ValFor("binop_r") /\ Top.opc \in RelationalOps \cup LogicalOps) =>
           LET l == Top.lv
               r == ctl.v
               opc == Top.opc
           IN /\ ctl'.m = "val"
              /\ IF opc \in RelationalOps
                 THEN IF RelationalDomain(l, r) THEN ctl'.v.t = "Bool"
                      ELSE ctl'.v = VNone
                 ELSE IF l.t = "Bool" /\ r.t = "Bool"
                      THEN ctl'.v =
                             VBool(CASE opc = "LogicalAnd" -> l.b /\ r.b
                                     [] opc = "LogicalOr" -> l.b \/ r.b
                                     [] opc = "LogicalXor" ->
                                            (l.b \/ r.b) /\ ~(l.b /\ r.b))
                      ELSE ctl'.v = VNone]_vars

\* `let r = true == true` has run: r is None.
C13_Witness ==
    /\ program = ProgBinOp(7, 6, 7) /\ ctl.m = "done"
    /\ resolve_var(scopes, id_r) = Some(VNone)

\* C14: `!` gives a Bool for every operand: the negation of a Bool, true
\* for None, and false for every other operand (Int, Real, Str, List, Dict).
C14_NotIsTotal ==
    [][(ValFor("unary") /\ Top.opc = "Not") =>
           /\ ctl'.m = "val"
           /\ ctl'.v = VBool(IF ctl.v.t = "Bool" THEN ~ctl.v.b
                             ELSE ctl.v.t = "None")]_vars

\* `let r = !3` has run: r is Bool(false).
C14_Witness ==
    /\ program = ProgUnaryOp(2) /\ ctl.m = "done"
    /\ resolve_var(scopes, id_r) = Some(VBool(FALSE))

\* C15: If runs its body when its condition is Bool(true) and for every
\* other value results in ExecResult::None with no statement of the body
\* executed; IfElse runs the then-block for Bool(true) and the else-block
\* for every other value, the values that are not Bools included; the
\* block that runs returns to the caller of the statement, so that its
\* result is the statement's result.
C15_Conditions ==
    /\ [][/\ ValFor("if") =>
                /\ stack' = Pop
                /\ scopes' = scopes
                /\ IF ctl.v = VBool(TRUE) THEN ctl' = CBlock(Top.stmts)
                   ELSE ctl' = CRes(RNone)
          /\ ValFor("if_else") =>
                /\ stack' = Pop
                /\ scopes' = scopes
                /\ IF ctl.v = VBool(TRUE) THEN ctl' = CBlock(Top.stmts)
                   ELSE ctl' = CBlock(Top.else_stmts)]_vars
    /\ [](ctl.m = "done" =>
            \A x \in 1..Len(OperandExprs) :
               /\ program = ProgIf(x) =>
                    IF OperandExprs[x] = EBool(TRUE)
                    THEN /\ exec_result = RReturn(VInt(1))
                         /\ resolve_var(scopes, id_a) = Some(VInt(1))
                         /\ resolve_var(scopes, id_b) = None
                    ELSE /\ exec_result = RNone
                         /\ resolve_var(scopes, id_a) = None
                         /\ resolve_var(scopes, id_b) = Some(VInt(2))
               /\ program = ProgIfElse(x) =>
                    IF OperandExprs[x] = EBool(TRUE)
                    THEN /\ exec_result = RNone
                         /\ resolve_var(scopes, id_a) = Some(VInt(1))
                         /\ resolve_var(scopes, id_c) = None
                         /\ resolve_var(scopes, id_b) = Some(VInt(2))
                    ELSE /\ exec_result = RBreak
                         /\ resolve_var(scopes, id_a) = None
                         /\ resolve_var(scopes, id_c) = Some(VInt(3))
                         /\ resolve_var(scopes, id_b) = None)

\* `if 3 { let a = 1; } else { let c = 3; break; }; let b = 2;` has run: the
\* else-block ran and its Break is the result.
C15_Witness ==
    /\ program = ProgIfElse(2) /\ ctl.m = "done"
    /\ exec_result = RBreak
    /\ resolve_var(scopes, id_c) = Some(VInt(3))

\* The innermost scope (0 when there is none) that binds `key` to a List
ListScope(chain, key) ==
    Greatest({j \in 1..Len(chain) :
        key \in DOMAIN chain[j].vars /\ chain[j].vars[key].t = "List"} \cup {0})

\* C16: the assignment `name[i] = v`, for an index i >= 0 and a name bound
\* to a List of length n, leaves a list of length max(n, i+1) whose element
\* i is v, whose elements n..i-1 are None, and whose other elements are the
\* elements the list had.
C16_ListAssignmentGrowth ==
    [][(/\ ValFor("assign_val") /\ Top.idxv.t = "Int" /\ Top.idxv.i >= 0
        /\ ListScope(scopes, Top.id) # 0) =>
           LET j == ListScope(scopes, Top.id)
               i == Top.idxv.i
               old == scopes[j].vars[Top.id].l
               n == Len(old)
               new == scopes'[j].vars[Top.id]
           IN /\ new.t = "List"
              /\ Len(new.l) = (IF n > i + 1 THEN n ELSE i + 1)
              /\ new.l[i + 1] = ctl.v
              /\ \A k \in (n + 1)..i : new.l[k] = VNone
              /\ \A k \in 1..n : k # i + 1 => new.l[k] = old[k]]_vars

\* `let a = [10]; a[3] = 7;` has run: a is [10, None, None, 7].
C16_Witness ==
    /\ program = ProgListAssign(1, 3) /\ ctl.m = "done"
    /\ resolve_var(scopes, id_a) =
           Some(VList(<<VInt(10), VNone, VNone, VInt(7)>>))

\* The innermost scope (0 when there is none) with an entry for `key` in its
\* table `tbl` ("funcs" or "native_funcs")
Innermost(chain, tbl, key) ==
    Greatest({j \in 1..Len(chain) : key \in DOMAIN chain[j][tbl]} \cup {0})

\* C17: a call invokes the script function of its name, the one of the
\* innermost scope that has one, whenever any scope of the chain has a
\* script function of that name, and then no native function is called; it
\* invokes a native function only when no scope has a script function of
\* the name, even if a scope nearer the top than the script function's has
\* a native function of the name.
C17_CallLookupOrder ==
    [][ctl.m = "call" =>
           LET sf == Innermost(scopes, "funcs", ctl.id)
               nf == Innermost(scopes, "native_funcs", ctl.id)
           IN /\ sf # 0 =>
                    /\ ctl' = CBlock(scopes[sf].funcs[ctl.id].stmts)
                    /\ stack' = Push([f |-> "execute"])
                    /\ native_log' = native_log
              /\ (sf = 0 /\ nf # 0) =>
                    /\ native_log' =
                         Append(native_log, [nf |-> scopes[nf].native_funcs[ctl.id],
                                             vals |-> ctl.acc])
                    /\ scopes' = scopes
              /\ native_log' # native_log => sf = 0]_vars

\* `let r = test_func(1)` has run on the chain of ScriptScope and, nearer the
\* top, NativeScope: the script function was called (r = 1; the native
\* function gives 41) and no native function was.
C17_Witness ==
    /\ host_chain = <<ScriptScope, NativeScope>>
    /\ program = ProgScriptOverNative /\ ctl.m = "done"
    /\ resolve_var(scopes, id_r) = Some(VInt(5))
    /\ resolve_var(scopes, id_a) = Some(VInt(1))
    /\ native_log = << >>

\* C18: a call with a values of a function with p parameters (of distinct
\* names) is no error: it pushes a scope whose variables are the first
\* min(p, a) parameters, bound to the first min(p, a) values in order, and
\* nothing else (a parameter past the last value is unbound in that scope, a
\* value past the last parameter is dropped), and the body executes.
C18_ArityMismatch ==
    [][(ctl.m = "call" /\ Innermost(scopes, "funcs", ctl.id) # 0) =>
           LET fn == scopes[Innermost(scopes, "funcs", ctl.id)].funcs[ctl.id]
               p == Len(fn.arg_ids)
               a == Len(ctl.acc)
               m == IF p < a THEN p ELSE a
               top == scopes'[Len(scopes')]
           IN (\A j, k \in 1..p : fn.arg_ids[j] = fn.arg_ids[k] => j = k) =>
                 /\ scopes' = Append(scopes, top)
                 /\ DOMAIN top.vars = {fn.arg_ids[j] : j \in 1..m}
                 /\ \A j \in 1..m : top.vars[fn.arg_ids[j]] = ctl.acc[j]
                 /\ DOMAIN top.funcs = {} /\ DOMAIN top.native_funcs = {}
                 /\ ctl' = CBlock(fn.stmts)]_vars

\* `let z = 9; fn f(x, z) { return [x, z]; }; let r = f(11);` has run: the
\* body ran with x = 11 and z unbound in its scope (it resolved to the 9 of
\* the root scope).
C18_Witness ==
    /\ program = ProgArity(1) /\ ctl.m = "done"
    /\ resolve_var(scopes, id_r) = Some(VList(<<VInt(11), VInt(9)>>))

\* The variable bindings of a chain, scope by scope
Bindings(chain) == [j \in DOMAIN chain |-> chain[j].vars]

C20_NamesResolveAtCallTime ==
    /\ [][(AtExpr("Id") /\ Invocations(stack) > 0) =>
              LET key == ctl.expr.id
                  frame == scopes[Len(scopes)]
                  below == SubSeq(scopes, 1, Len(scopes) - 1)
                  j == Innermost(below, "vars", key)
              IN ctl' = CVal(IF key \in DOMAIN frame.vars THEN frame.vars[key]
                             ELSE IF j # 0 THEN below[j].vars[key]
                             ELSE VNone)]_vars
    /\ [](\A j \in 1..Len(scopes) : \A fid \in DOMAIN scopes[j].funcs :
              DOMAIN scopes[j].funcs[fid] = {"arg_ids", "stmts"})
    /\ []((program = ProgDynamic /\ ctl.m = "done"
             /\ host_chain = ScopeChain_from_scope(global_scope)) =>
              /\ scopes[1].vars[id_r] = VList(<<VInt(2), VInt(2)>>)
              /\ scopes[1].vars[id_b] = VInt(1)
              /\ scopes[1].vars[id_c] = VInt(1))

\* ProgDynamic has run: g and h, defined at the top level and called from
\* f(2), found the a = 2 of f's scope; called from the top level they found
\* the a = 1 of the root scope.
C20_Witness ==
    /\ program = ProgDynamic /\ ctl.m = "done"
    /\ Len(scopes) = 1
    /\ scopes[1].vars[id_r] = VList(<<VInt(2), VInt(2)>>)
    /\ scopes[1].vars[id_b] = VInt(1)

\* C21: when an execution of the body of a Loop yields Return(v), the Loop
\* stops and Return(v) is its own result; when the body yields Break the
\* Loop stops too, so a Loop ends with the first body execution that yields
\* Break or Return.
C21_LoopEndsOnReturn ==
    [][(ResFor("loop") /\ ctl.r.x \in {"Break", "Return"}) =>
           /\ stack' = Pop
           /\ ctl' = CRes(IF ctl.r.x = "Return" THEN ctl.r ELSE RNone)]_vars

\* C22: Break becomes normal completion only at a Loop and Return becomes a
\* value only at a function invocation; a statement block, a Loop receiving
\* Return and a function invocation receiving Break hand the signal on
\* unchanged (If and IfElse run their block in place of themselves, so its
\* result reaches the construct around them as it is).
C22_SignalsConsumedOnce ==
    [][(ctl.m = "res" /\ ctl.r.x \in {"Break", "Return"} /\ stack # << >>) =>
           CASE Top.f = "loop" /\ ctl.r.x = "Break" ->
                    ctl' = CRes(RNone) /\ stack' = Pop
             [] Top.f = "execute" /\ ctl.r.x = "Return" ->
                    ctl' = CVal(ctl.r.v) /\ stack' = Pop
             [] OTHER -> ctl' = CRes(ctl.r) /\ stack' = Pop]_vars

\* The innermost scope (0 when there is none) that binds `key` to a value of
\* type `kind`
CollScope(chain, key, kind) ==
    Greatest({j \in 1..Len(chain) :
        key \in DOMAIN chain[j].vars /\ chain[j].vars[key].t = kind} \cup {0})

\* The type of collection an index value selects ("" for an index that is
\* neither Int nor Str)
IndexedKind(idxv) ==
    IF idxv.t = "Int" THEN "List" ELSE IF idxv.t = "Str" THEN "Dict" ELSE ""

NonCollection(chain, key) ==
    /\ resolve_var(chain, key).o = "Some"
    /\ resolve_var(chain, key).v.t \notin {"List", "Dict"}

C24_IntegerRemainder ==
    [][(ValFor("binop_r") /\ Top.opc = "Mod") =>
           LET l == Top.lv
               r == ctl.v
           IN /\ ctl'.m = "val"
              /\ (l.t # "Int" \/ r.t # "Int") => ctl'.v = VNone
              /\ (l.t = "Int" /\ r.t = "Int" /\ r.i # 0) =>
                   /\ ctl'.v.t = "Int"
                   /\ Abs(ctl'.v.i) < Abs(r.i)
                   /\ ctl'.v.i * Sign(l.i) >= 0
                   /\ \E q \in (0 - Abs(l.i))..Abs(l.i) :
                          l.i = q * r.i + ctl'.v.i]_vars

\* The first arguments of the native calls made so far, in call order
Printed == [j \in 1..Len(native_log) |-> native_log[j].vals]

IsPrefix(s, u) == Len(s) <= Len(u) /\ \A j \in 1..Len(s) : s[j] = u[j]

OperandOrderLog == <<<<VInt(1)>>, <<VInt(2)>>, <<VInt(3)>>, <<VInt(4)>>>>

ArgumentOrderLog ==
    <<<<VInt(1)>>, <<VInt(3)>>, <<VInt(2)>>, <<VInt(4)>>, <<VInt(5)>>>>

HasPrint == resolve_native_func(host_chain, id_print).o = "Some"

\* The calls of print made by the operands of && and ||, by the arguments of
\* a call and by the index and value of an indexed assignment happen in
\* source order, none is skipped, and an argument that names a variable the
\* callee has a parameter for is read in the caller's scope.
EvaluationOrderObserved ==
    /\ (program = ProgOperandOrder /\ HasPrint) =>
           /\ IsPrefix(Printed, OperandOrderLog)
           /\ ctl.m = "done" =>
                /\ Printed = OperandOrderLog
                /\ resolve_var(scopes, id_r) = Some(VBool(FALSE))
                /\ resolve_var(scopes, id_b) = Some(VBool(TRUE))
    /\ (program = ProgArgumentOrder /\ HasPrint) =>
           /\ IsPrefix(Printed, ArgumentOrderLog)
           /\ ctl.m = "done" =>
                /\ Printed = ArgumentOrderLog
                /\ resolve_var(scopes, id_r) = Some(VInt(1))
                /\ resolve_var(scopes, id_a) = Some(VList(<<VInt(0), VInt(6)>>))

\* The steps between the operands: the left value of every operator is
\* followed by the evaluation of the right operand; each argument value is
\* followed by the next argument, or by the call once all are there, with
\* the chain and the native functions untouched; the index value is
\* followed by the evaluation of the assigned value.
EvaluationOrderSteps ==
    /\ AtExpr("BinOp") => ctl' = CExpr(ctl.expr.lhs)
    /\ ValFor("binop_l") =>
           /\ ctl' = CExpr(Top.rhs)
           /\ stack' = Replace([f |-> "binop_r", opc |-> Top.opc, lv |-> ctl.v])
    /\ (AtExpr("FuncCall") /\ ctl.expr.args # << >>) =>
           ctl' = CExpr(ctl.expr.args[1]) /\ scopes' = scopes /\ io' = io
    /\ ValFor("call_args") =>
           /\ scopes' = scopes /\ io' = io
           /\ IF Len(Top.acc) + 1 < Len(Top.args)
              THEN ctl' = CExpr(Top.args[Len(Top.acc) + 2])
              ELSE /\ ctl'.m = "call"
                   /\ ctl'.acc = Append(Top.acc, ctl.v)
                   /\ Len(ctl'.acc) = Len(Top.args)
    /\ AtStmt("ListItemAssignment") => ctl' = CExpr(ctl.stm.idx)
    /\ ValFor("assign_idx") => ctl' = CExpr(Top.val) /\ scopes' = scopes

\* C25: both operands of every binary operator are evaluated, left before
\* right, also when the left operand of && or || decides the result; the
\* arguments of a call are all evaluated left to right in the caller's scope
\* before the callee's scope is pushed or the native function runs; the index
\* of an indexed assignment is evaluated before the value.
C25_EvaluationOrder ==
    []EvaluationOrderObserved /\ [][EvaluationOrderSteps]_vars

\* `let r = f(1, false) && f(2, true); let b = f(3, true) || f(4, false);`
\* has run with f printing its first argument: all four calls were made.
C25_Witness ==
    /\ program = ProgOperandOrder /\ HasPrint /\ ctl.m = "done"
    /\ Printed = OperandOrderLog

\* The (scope, name) pairs whose bound value differs between two chains of
\* the same shape
ChangedBindings(before, after) ==
    {<<k, nm>> \in UNION {{k} \X DOMAIN before[k].vars : k \in 1..Len(before)} :
        after[k].vars[nm] # before[k].vars[nm]}

\* An indexed assignment changes at most one binding, and that is a binding
\* of the assigned name: a collection bound to another name stays as it is.
AssignmentChangesOneBinding ==
    ValFor("assign_val") =>
        /\ Len(scopes') = Len(scopes)
        /\ \A k \in 1..Len(scopes) : DOMAIN scopes'[k].vars = DOMAIN scopes[k].vars
        /\ Cardinality(ChangedBindings(scopes, scopes')) <= 1
        /\ \A c \in ChangedBindings(scopes, scopes') : c[2] = Top.id

\* After `let a = [1]; let b = a; b[0] = 2;` a is [1] and b is [2]; after
\* f(a) with `fn f(c) { c[0] = 9; return c; }` a is [1] and the result [9];
\* after `let g = {"d1": 1}; let h = g; h["d1"] = 5;` g has d1 = 1 and h has
\* d1 = 5.
CopiesAreSeparate ==
    (program = ProgCopy /\ ctl.m = "done") =>
        /\ resolve_var(scopes, id_a) = Some(VList(<<VInt(1)>>))
        /\ resolve_var(scopes, id_b) = Some(VList(<<VInt(2)>>))
        /\ resolve_var(scopes, id_d) = Some(VList(<<VInt(9)>>))
        /\ resolve_var(scopes, id_g) = Some(VDict(MapInsert(EmptyMap, str_d1, VInt(1))))
        /\ resolve_var(scopes, id_h) = Some(VDict(MapInsert(EmptyMap, str_d1, VInt(5))))

\* C26: a List or Dict bound by `let b = a` or passed as an argument is a
\* copy: an indexed assignment through one name leaves the collection bound
\* to every other name unchanged.
C26_CollectionsCopiedByValue ==
    []CopiesAreSeparate /\ [][AssignmentChangesOneBinding]_vars

\* In `let a = [1]; let b = a; b[0] = 2; fn f(c) { c[0] = 9; return c; };
\* let d = f(a);` the assignment c[0] = 9 has run in f while a, b and the
\* parameter c are bound: c is [9], a is still [1].
C26_Witness ==
    /\ program = ProgCopy /\ Len(scopes) = Len(host_chain) + 1
    /\ resolve_var(scopes, id_c) = Some(VList(<<VInt(9)>>))
    /\ resolve_var(scopes, id_a) = Some(VList(<<VInt(1)>>))
    /\ resolve_var(scopes, id_b) = Some(VList(<<VInt(2)>>))

\* What print writes for one argument: Int, Real and Str with {} and every
\* other value with {:?}
Rendering(val) ==
    IF val.t \in {"Int", "Real", "Str"} THEN WDisplay(val) ELSE WDebug(val)

\* C27: a call of print appends the rendering of each argument in order and
\* nothing else; a call of println appends the same renderings and then one
\* newline, whatever the types of the arguments; both calls evaluate to
\* None.
C27_BuiltinOutput ==
    [][(/\ ctl.m = "call" /\ Len(native_log) < MaxCalls
        /\ FuncCall_target(scopes, ctl.id).to = "native"
        /\ FuncCall_target(scopes, ctl.id).nf \in {"NFPrint", "NFPrintLn"}) =>
           LET rendered == [j \in 1..Len(ctl.acc) |-> Rendering(ctl.acc[j])]
           IN /\ ctl' = CVal(VNone)
              /\ stdout' = stdout \o rendered \o
                     (IF FuncCall_target(scopes, ctl.id).nf = "NFPrintLn"
                      THEN <<WNewline>> ELSE << >>)]_vars

\* The steps of If, IfElse, Loop and of a statement block leave the chain as
\* it is; a let binds in the scope that is innermost at that moment; the
\* chain grows only where a call starts.
BodiesRunInPlace ==
    /\ (\/ AtStmt("If") \/ AtStmt("IfElse") \/ AtStmt("Loop")
        \/ ValFor("if") \/ ValFor("if_else")
        \/ ResFor("loop") \/ ResFor("block") \/ ctl.m = "block") =>
           scopes' = scopes
    /\ ValFor("let") =>
           /\ Len(scopes') = Len(scopes)
           /\ \A k \in 1..(Len(scopes) - 1) : scopes'[k] = scopes[k]
           /\ Top.id \in DOMAIN scopes'[Len(scopes)].vars
           /\ scopes'[Len(scopes)].vars[Top.id] = ctl.v
    /\ Len(scopes') > Len(scopes) => ctl.m \in {"call", "start"}

\* `let a = 0; loop { let a = a + 1; if a > 2 { let b = a; break; }; };` has
\* left a = 3 and b = 3 at the end, and f(5), whose IfElse binds z in the
\* scope of f, has returned that z; the chain is as deep as the host's.
BodyLetsStay ==
    (program = ProgBodyLets /\ ctl.m = "done") =>
        /\ Len(scopes) = Len(host_chain)
        /\ resolve_var(scopes, id_a) = Some(VInt(3))
        /\ resolve_var(scopes, id_b) = Some(VInt(3))
        /\ resolve_var(scopes, id_r) = Some(VInt(5))

\* C28: the bodies of If, IfElse and Loop run in the scope that is innermost
\* when the statement starts: the depth of the chain does not change while
\* they run, and a let executed in such a body is still bound after the
\* body ends, so a loop body's `let a = a + 1` accumulates.
C28_OnlyCallsCreateScopes ==
    []BodyLetsStay /\ [][BodiesRunInPlace]_vars

\* The loop of ProgBodyLets has ended after three executions of its body and
\* the If body's let: a = 3, b = 3, with the chain no deeper than at the
\* start.
C28_Witness ==
    /\ program = ProgBodyLets /\ ctl.m = "done"
    /\ Len(scopes) = Len(host_chain)
    /\ resolve_var(scopes, id_a) = Some(VInt(3))
    /\ resolve_var(scopes, id_b) = Some(VInt(3))

\* `name` resolves to a List and idxv is an Int outside 0..n-1, n the length
\* of that List
OutOfRange(chain, name, idxv) ==
    /\ idxv.t = "Int"
    /\ resolve_var(chain, name).o = "Some"
    /\ resolve_var(chain, name).v.t = "List"
    /\ idxv.i < 0 \/ idxv.i >= Len(resolve_var(chain, name).v.l)

\* C29: with `name` bound to a List and an Int index outside the List, also
\* a negative one, the read name[i] evaluates to None and the assignment
\* name[i] = v ends with ExecResult::None, so that the statements after it
\* run.
C29_OutOfRangeIndexIsSoft ==
    [][/\ (ValFor("list_elem") /\ OutOfRange(scopes, Top.id, ctl.v)) =>
              ctl' = CVal(VNone)
       /\ (ValFor("assign_val") /\ OutOfRange(scopes, Top.id, Top.idxv)) =>
              ctl' = CRes(RNone)]_vars

ResolvesTo(chain, name, kind) ==
    /\ resolve_var(chain, name).o = "Some"
    /\ resolve_var(chain, name).v.t = kind

\* The value of the expression name[idx] in the chain as an indexed
\* assignment leaves it equals the assigned value, and for a Dict the
\* expression name[k] of every other key k has the value it had.
ReadsBackWritten ==
    /\ (/\ ValFor("assign_val") /\ ResolvesTo(scopes, Top.id, "List")
        /\ Top.idxv.t = "Int" /\ Top.idxv.i >= 0) =>
           /\ ctl' = CRes(RNone)
           /\ ListElement_value(scopes', Top.id, Top.idxv) = ctl.v
    /\ (/\ ValFor("assign_val") /\ ResolvesTo(scopes, Top.id, "Dict")
        /\ Top.idxv.t = "Str") =>
           /\ ctl' = CRes(RNone)
           /\ ListElement_value(scopes', Top.id, Top.idxv) = ctl.v
           /\ \A k \in DOMAIN resolve_var(scopes, Top.id).v.dm \ {Top.idxv.s} :
                  ListElement_value(scopes', Top.id, VStr(k)) =
                      resolve_var(scopes, Top.id).v.dm[k]

\* The reads of ProgReadAfterWrite: a["d2"] is the 5 written over 2, a["d1"]
\* is still 1, a["d3"] is the 6 of the new key, g[2] is the 7 written past
\* the end of [1].
ReadAfterWriteObserved ==
    (program = ProgReadAfterWrite /\ ctl.m = "done") =>
        /\ resolve_var(scopes, id_b) = Some(VInt(5))
        /\ resolve_var(scopes, id_c) = Some(VInt(1))
        /\ resolve_var(scopes, id_d) = Some(VInt(6))
        /\ resolve_var(scopes, id_h) = Some(VInt(7))

\* C30: with `name` resolving to a List and an Int i >= 0, name[i] evaluates
\* to v right after name[i] = v; with `name` resolving to a Dict and a Str
\* k, name[k] evaluates to v right after name[k] = v and every other key
\* keeps its value.
C30_ReadAfterWrite ==
    []ReadAfterWriteObserved /\ [][ReadsBackWritten]_vars

\* ProgReadAfterWrite has run: the reads after the three assignments gave
\* 5, 6 and 7.
C30_Witness ==
    /\ program = ProgReadAfterWrite /\ ctl.m = "done"
    /\ resolve_var(scopes, id_b) = Some(VInt(5))
    /\ resolve_var(scopes, id_d) = Some(VInt(6))
    /\ resolve_var(scopes, id_h) = Some(VInt(7))
=============================================================================
